---- MODULE Spec2Model ----
(***************************************************************************)
(* mergescribe: push-to-talk dictation engine.                             *)
(*                                                                         *)
(* Spec     the running system: input controller -> on_start/on_stop ->    *)
(*          SessionManager -> Session, the audio engine's device callback  *)
(*          and the worker / finalization threads (session.py, input.py,   *)
(*          audio.py, __main__.py).  A chunk is named by the order in      *)
(*          which the engine flushed it during its recording; a Session    *)
(*          object lives in a slot; the step that drops the last reference *)
(*          to a completed Session empties the slot.                       *)
(*                                                                         *)
(* Durations of the audio engine are kept in samples (seconds times        *)
(* config.sample_rate), so every comparison of audio.py is an integer      *)
(* comparison.                                                             *)
(*                                                                         *)
(* SpecFin  one finalization in detail: Session._finalize_impl with the     *)
(*          consensus checker, the router, the correction client and the   *)
(*          output procedure (session.py, consensus.py, router.py,         *)
(*          correct.py); its inputs are the chunk outcomes, the selection, *)
(*          the captured context, the window and the configured backends.  *)
(*                                                                         *)
(* SpecJob  one chunk job in detail: _transcribe_chunk_with_consensus with *)
(*          the provider calls completing in any order, followed by the    *)
(*          finalization of its outcome (session.py, consensus.py).        *)
(*                                                                         *)
(* SpecRouter  the correction router with its clock: the table of failure  *)
(*          counts and back-off deadlines of router.py, in seconds.        *)
(*                                                                         *)
(* SpecRing the audio engine with the blocks of the device told apart: the *)
(*          pre-roll ring, the builder and the chunks of each recording    *)
(*          (audio.py).                                                    *)
(*                                                                         *)
(* SpecCtl  the input controller with its key events told apart and a      *)
(*          clock in units of double_tap_threshold (input.py).             *)
(*                                                                         *)
(* SpecChunk  the provider calls of one chunk: on_chunk_ready and the      *)
(*          loops of _transcribe_chunk_with_consensus, with the executor's *)
(*          shutdown by the finalization (session.py), over the registry   *)
(*          _init_providers has built (providers/__init__.py).             *)
(*                                                                         *)
(* SpecLocks  the seven mutexes and the lock operations of the calls each  *)
(*          thread makes (input.py, audio.py, session.py, router.py).      *)
(*                                                                         *)
(* SpecMgr  the SessionManager on its own, called directly (session.py).   *)
(***************************************************************************)
EXTENDS Integers, Sequences, FiniteSets, TLC

\* ------------------------------------------------------------------------
\* Bounds of the model
\* ------------------------------------------------------------------------
MaxSessions == 2      \* Session objects alive (still referenced) at one time
MaxRecBlocks == 2     \* device blocks delivered during one recording
MaxChunks == 2        \* chunk outcomes a finalization finds (SpecFin)
MaxFragments == 2     \* stream events of one correction backend call (SpecFin)

\* ------------------------------------------------------------------------
\* Program constants
\* ------------------------------------------------------------------------
DEFAULT_BLOCKSIZE == 1024
MIN_CHUNK_SECONDS == 5
\* TRAILING_SILENCE_SECONDS = 0.5, kept as a fraction
TRAILING_SILENCE_NUM == 1
TRAILING_SILENCE_DEN == 2
SHORT_INPUT_WORD_THRESHOLD == 20
BACKOFF_FAILURES == 3
MAX_BACKOFF_SECONDS == 300
EDIT_WORD_COUNT == 50

\* The configuration the engine and the controller run with.  sample_rate is
\* chosen so that one block of 1024 samples lasts 2 s; double_tap_threshold is
\* one unit of the controller's clock.
config ==
  [ sample_rate          |-> 512,
    preroll_seconds      |-> 4,
    silence_threshold    |-> 2,
    double_tap_threshold |-> 1,
    consensus_threshold  |-> 2,
    consensus_max_words  |-> 15 ]

Sessions == 1..MaxSessions
NoSession == 0
Threads == {"listener", "timer"}

VARIABLES
  \* InputController (input.py)
  state,                \* "idle" | "recording" | "toggle_recording"
  trigger_key_pressed,
  last_press_time,      \* 0 as constructed, 1 once a press has stored its `now`
                        \* (SpecCtl: the `now` the last press stored)
  toggle_timer,         \* _toggle_timer: "none" | "armed"
  in_lock,              \* holder of InputController._lock: "free" or a thread
  pc,                   \* position of each controller thread
  handler,              \* the handler each controller thread is running
  \* __main__.py
  current_session,
  new_session,          \* on_start's local `session`
  final_chunk,          \* on_stop's local `final_chunk`
  \* AudioEngine (audio.py), one device (the reference device)
  is_recording,
  on_chunk_ready,       \* the attached sink: a session or NoSession
  preroll,              \* blocks in the pre-roll ring
  current_chunk,        \* samples in the chunk builder
  silence_duration,     \* in samples
  rec_blocks,           \* blocks delivered so far in the current recording
  dev,                  \* the device callback thread
  flushed,              \* chunks flushed so far in the current recording
  \* SessionManager (session.py)
  active_session,
  busy_cue,             \* the running on_start has played the busy cue
  \* Session (session.py), per session
  life,                 \* lifecycle and position of the finalization thread
  is_active,
  chunk_results,        \* outcomes, each named by the chunk it belongs to
  pending_futures,
  finished,             \* chunk jobs that have returned
  all_audio,
  executor_shutdown,
  futures_to_wait,      \* _finalize_impl's local copy of pending_futures
  fin_chunk,            \* _finalize_impl's argument
  \* history of the behaviour
  stop_returned,        \* sessions whose stop_recording() has returned
  completions           \* per session: completion callbacks run

ctlVars == <<state, trigger_key_pressed, last_press_time, toggle_timer,
             in_lock, pc, handler>>
mainVars == <<current_session, new_session, final_chunk>>
engVars == <<is_recording, on_chunk_ready, preroll, current_chunk,
             silence_duration, rec_blocks, dev, flushed>>
mgrVars == <<active_session, busy_cue>>
sessVars == <<life, is_active, chunk_results, pending_futures, finished,
              all_audio, executor_shutdown, futures_to_wait, fin_chunk>>
histVars == <<stop_returned, completions>>
sysVars == <<ctlVars, mainVars, engVars, mgrVars, sessVars, histVars>>

VARIABLES
  \* Session._finalize_impl in detail (SpecFin)
  fpc,                  \* position of the finalization thread
  selected_text,        \* Session.selected_text, <<>> when nothing was selected
  context,              \* bundle id of Session.context, "none" when it is None
  window,               \* bundle id a call of get_app_context() returns now,
                        \* "" when its query of the front application fails
  api_keys,             \* correction backends whose API key is configured
  provider_failures,    \* router._PROVIDER_FAILURES
  backoff,              \* backends whose _PROVIDER_BACKOFF_UNTIL lies ahead
  output_lock,          \* holder of the output mutex: "free" or "fin"
  out,                  \* calls of the output primitives, in order
  raised,               \* an exception reached line 358 of _finalize_impl
  chunk_texts,          \* locals of _finalize_impl
  all_results,
  combined_text,
  can_stream,
  streamed_tokens,
  final_text,           \* Session._final_text
  text_arg,             \* the argument of _output
  llm,                  \* the running call of the correction client
  client_calls          \* calls of the correction client so far

VARIABLES
  \* Session._transcribe_chunk_with_consensus in detail (SpecJob)
  jpc,                  \* position of the job: "idle" | "waiting" | "done"
  snapshot,             \* Session.config_snapshot: the consensus tunables
  job_calls,            \* the provider calls of the chunk: what each one does
  job_pending,          \* futures that have not completed
  job_results,          \* the local `results`
  job_consensus,        \* the local `consensus`, <<>> when it is None
  job_timed_out         \* as_completed raised its timeout

jobVars == <<jpc, snapshot, job_calls, job_pending, job_results, job_consensus,
             job_timed_out>>

VARIABLES
  \* CorrectionRouter with its clock (SpecRouter)
  now,                  \* time.time(): whole seconds in SpecRouter, units of
                        \* double_tap_threshold in SpecCtl
  backoff_until,        \* router._PROVIDER_BACKOFF_UNTIL
  router_call           \* the call of the router that has just returned

routerVars == <<now, backoff_until, router_call>>

VARIABLES
  \* AudioEngine with the blocks of the device told apart (SpecRing)
  ring,                 \* preroll_buffers[d]: the blocks, by serial number
  builder,              \* current_chunk[d]: the blocks and what is left of each
  block_no,             \* blocks the device has delivered so far
  recordings,           \* per recording: its seed, the number of blocks
                        \* delivered before it started, and its chunks
  shut,                 \* shutdown() has cleared the buffers
  silent_blocks         \* the blocks _is_silence has found silent

ringVars == <<ring, builder, block_no, recordings, shut, silent_blocks>>

VARIABLES
  \* InputController with its key events told apart (SpecCtl)
  key_down,             \* the trigger key is physically held
  shift_pressed,        \* _shift_pressed
  on_emergency_reset,   \* the hook: "none" (as main() leaves it) or "hook"
  ctl_event             \* the event just handled, the state it found and
                        \* the intents it fired

keyVars == <<key_down, shift_pressed, on_emergency_reset, ctl_event>>

VARIABLES
  \* a chunk job's provider calls told apart (SpecChunk)
  job_chunk,            \* the chunk: samples per device
  registry,             \* Session.providers: the registered providers, in order
  init_failed,          \* the registered providers whose initialize() failed
  job_futures           \* the local `futures`: the (mic, provider) of each call

chunkVars == <<job_chunk, registry, init_failed, job_futures>>

VARIABLES
  \* _finalize_impl's wait for the chunk jobs, lines 256-260
  wait_expired          \* per session, during the wait loop: the jobs whose
                        \* future.result(timeout=30) timed out

VARIABLES
  \* the seven mutexes and the threads that take them (SpecLocks)
  lock_holder,          \* per mutex: the thread that holds it, or "free"
  lock_prog             \* per thread: the lock operations its running call
                        \* has still to make, <<>> between calls

lockVars == <<lock_holder, lock_prog>>

finDetail == <<fpc, selected_text, context, window, api_keys, provider_failures,
             backoff, output_lock, out, raised, chunk_texts, all_results,
             combined_text, can_stream, streamed_tokens, final_text, text_arg,
             llm, client_calls, jobVars, routerVars, ringVars, keyVars, chunkVars, lockVars>>
finVars == <<finDetail, wait_expired>>
vars == <<sysVars, finVars>>

NoChunk == [id |-> 0, n |-> 0]
Providers == {"groq", "gemini", "openrouter"}
NoRouterCall == [op |-> "none", arg |-> "none", result |-> "none"]
NoCall == [mode |-> "none", provider |-> "none", fallback |-> FALSE,
           collected |-> <<>>, events |-> 0, result |-> <<>>, returned |-> FALSE]

\* the finalization details before a finalization is looked at in detail
FinIdle ==
  /\ fpc = "idle"
  /\ selected_text = <<>>
  /\ context = "none"
  /\ window = ""
  /\ api_keys = {}
  /\ provider_failures = [p \in Providers |-> 0]
  /\ backoff = {}
  /\ output_lock = "free"
  /\ out = <<>>
  /\ raised = FALSE
  /\ chunk_texts = <<>>
  /\ all_results = <<>>
  /\ combined_text = <<>>
  /\ can_stream = FALSE
  /\ streamed_tokens = <<>>
  /\ final_text = <<>>
  /\ text_arg = <<>>
  /\ llm = NoCall
  /\ client_calls = 0
Min(a, b) == IF a < b THEN a ELSE b

\* the job details while no chunk job is looked at in detail
JobIdle ==
  /\ jpc = "idle"
  /\ snapshot = [consensus_threshold |-> config.consensus_threshold,
                 consensus_max_words |-> config.consensus_max_words]
  /\ job_calls = <<>>
  /\ job_pending = {}
  /\ job_results = <<>>
  /\ job_consensus = <<>>
  /\ job_timed_out = FALSE

\* the router's clock and table while the router is not looked at in detail
RouterIdle ==
  /\ now = 0
  /\ backoff_until = [p \in Providers |-> 0]
  /\ router_call = NoRouterCall

\* the blocks of the device while they are not told apart
RingIdle ==
  /\ ring = <<>>
  /\ builder = <<>>
  /\ block_no = 0
  /\ recordings = <<>>
  /\ shut = FALSE
  /\ silent_blocks = {}

NoEvent == [key |-> "none", state |-> "none", pressed |-> FALSE, gap |-> 0,
            fired |-> <<>>]

\* the key events while they are not told apart
KeyIdle ==
  /\ key_down = FALSE
  /\ shift_pressed = FALSE
  /\ on_emergency_reset = "none"
  /\ ctl_event = NoEvent

Locks == {"input", "manager", "engine", "chunk", "output", "history", "router"}
LockThreads == {"listener", "timer", "device1", "device2", "worker", "fin"}

\* no mutex is looked at
LockIdle ==
  /\ lock_holder = [l \in Locks |-> "free"]
  /\ lock_prog = [t \in LockThreads |-> <<>>]

\* the provider calls while they are not told apart
ChunkIdle ==
  /\ job_chunk = <<>>
  /\ registry = <<>>
  /\ init_failed = {}
  /\ job_futures = <<>>

\* ------------------------------------------------------------------------
\* Initial state: after main() has built the engine, the manager and the
\* controller; no session exists, the rings are empty.
\* ------------------------------------------------------------------------
SysIdle ==
  /\ state = "idle"
  /\ trigger_key_pressed = FALSE
  /\ last_press_time = 0
  /\ toggle_timer = "none"
  /\ in_lock = "free"
  /\ pc = [t \in Threads |-> "idle"]
  /\ handler = [t \in Threads |-> "none"]
  /\ current_session = NoSession
  /\ new_session = NoSession
  /\ final_chunk = NoChunk
  /\ is_recording = FALSE
  /\ on_chunk_ready = NoSession
  /\ preroll = 0
  /\ current_chunk = 0
  /\ silence_duration = 0
  /\ rec_blocks = 0
  /\ dev = [pc |-> "idle", sink |-> NoSession, chunk |-> NoChunk, raised |-> FALSE]
  /\ flushed = 0
  /\ active_session = NoSession
  /\ busy_cue = FALSE
  /\ life = [s \in Sessions |-> "none"]
  /\ is_active = [s \in Sessions |-> FALSE]
  /\ chunk_results = [s \in Sessions |-> <<>>]
  /\ pending_futures = [s \in Sessions |-> <<>>]
  /\ finished = [s \in Sessions |-> {}]
  /\ all_audio = [s \in Sessions |-> <<>>]
  /\ executor_shutdown = [s \in Sessions |-> FALSE]
  /\ futures_to_wait = [s \in Sessions |-> <<>>]
  /\ fin_chunk = [s \in Sessions |-> NoChunk]
  /\ stop_returned = {}
  /\ completions = [s \in Sessions |-> 0]
  /\ wait_expired = [s \in Sessions |-> {}]

Init ==
  SysIdle /\ FinIdle /\ JobIdle /\ RouterIdle /\ RingIdle /\ KeyIdle /\ ChunkIdle /\ LockIdle

\* ------------------------------------------------------------------------
\* AudioEngine (audio.py)
\* ------------------------------------------------------------------------
\* initialize(): the ring of a device holds int(_preroll_samples / 1024) blocks
preroll_chunks ==
  (config.preroll_seconds * config.sample_rate) \div DEFAULT_BLOCKSIZE

silence_threshold_samples == config.silence_threshold * config.sample_rate
\* line 222 with a minimum of one block
min_chunk_samples_one_block == DEFAULT_BLOCKSIZE
min_chunk_samples == MIN_CHUNK_SECONDS * config.sample_rate
trailing_silence_samples ==
  (TRAILING_SILENCE_NUM * config.sample_rate) \div TRAILING_SILENCE_DEN

\* _trim_trailing_samples: what is left of a builder of n samples
trim_trailing_samples(n, samples_to_trim) ==
  IF samples_to_trim <= 0 THEN n
  ELSE IF n <= samples_to_trim THEN 0 ELSE n - samples_to_trim

\* start_recording(): seed the builder with a copy of the ring
start_recording ==
  /\ is_recording' = TRUE
  /\ silence_duration' = 0
  /\ current_chunk' = preroll * DEFAULT_BLOCKSIZE
  /\ rec_blocks' = 0
  /\ flushed' = 0
  /\ UNCHANGED <<preroll, dev>>

\* stop_recording(): detach the sink, flush the builder into the final chunk
stop_recording ==
  /\ is_recording' = FALSE
  /\ on_chunk_ready' = NoSession
  /\ silence_duration' = 0
  /\ final_chunk' = [id |-> flushed + 1, n |-> current_chunk]
  /\ flushed' = 0
  /\ rec_blocks' = 0
  /\ current_chunk' = 0
  /\ UNCHANGED <<preroll, dev>>

\* _audio_callback while not recording: push the block onto the ring
AudioCallbackPreroll ==
  /\ dev.pc = "idle"
  /\ ~is_recording
  /\ preroll' = Min(preroll + 1, preroll_chunks)
  /\ UNCHANGED <<is_recording, on_chunk_ready, current_chunk,
                 silence_duration, rec_blocks, dev, flushed>>
  /\ UNCHANGED <<ctlVars, mainVars, mgrVars, sessVars, histVars>>
  /\ UNCHANGED finVars

\* _audio_callback while recording, a block that is not silent
AudioCallbackLoud ==
  /\ dev.pc = "idle"
  /\ is_recording
  /\ rec_blocks < MaxRecBlocks
  /\ current_chunk' = current_chunk + DEFAULT_BLOCKSIZE
  /\ rec_blocks' = rec_blocks + 1
  /\ silence_duration' = 0
  /\ UNCHANGED <<is_recording, on_chunk_ready, preroll, dev, flushed>>
  /\ UNCHANGED <<ctlVars, mainVars, mgrVars, sessVars, histVars>>
  /\ UNCHANGED finVars

\* _audio_callback while recording, a silent block: silence accounting and,
\* when the chunk is long enough, emission.  The thread leaves the engine
\* mutex with the sink it read under the mutex.
AudioCallbackSilent ==
  /\ dev.pc = "idle"
  /\ is_recording
  /\ rec_blocks < MaxRecBlocks
  /\ rec_blocks' = rec_blocks + 1
  /\ LET grown == current_chunk + DEFAULT_BLOCKSIZE
         sd == silence_duration + DEFAULT_BLOCKSIZE
         excess_silence == sd - trailing_silence_samples
         chunk == [id |-> flushed + 1,
                   n |-> trim_trailing_samples(grown, excess_silence)]
     IN IF sd >= silence_threshold_samples
        THEN IF grown >= min_chunk_samples
             THEN /\ current_chunk' = 0
                  /\ flushed' = flushed + 1
                  /\ IF on_chunk_ready # NoSession
                     THEN /\ dev' = [pc |-> "callback", sink |-> on_chunk_ready,
                                     chunk |-> chunk, raised |-> FALSE]
                          /\ silence_duration' = sd
                     ELSE /\ dev' = dev
                          /\ silence_duration' = 0
             ELSE /\ current_chunk' = grown
                  /\ silence_duration' = 0
                  /\ UNCHANGED <<dev, flushed>>
        ELSE /\ current_chunk' = grown
             /\ silence_duration' = sd
             /\ UNCHANGED <<dev, flushed>>
  /\ UNCHANGED <<is_recording, on_chunk_ready, preroll>>
  /\ UNCHANGED <<ctlVars, mainVars, mgrVars, sessVars, histVars>>
  /\ UNCHANGED finVars

\* ------------------------------------------------------------------------
\* Session objects.  A Session is named by its rank, in order of creation,
\* among the Sessions that are still referenced.  A completed Session that no
\* thread, job or variable refers to is dropped: the Sessions created after it
\* move down by one, in the per-session fields and in every reference.
\* ------------------------------------------------------------------------
Unfinished(s) ==
  {k \in 1..Len(pending_futures[s]) : pending_futures[s][k] \notin finished[s]}

\* the name, after Session s is dropped, of what x named before
Ren(s, x) == IF x > s THEN x - 1 ELSE x

\* a per-session field after Session s is dropped; e is the field's value in a
\* Session as constructed
Shift(f, s, e) ==
  [i \in Sessions |-> IF i < s THEN f[i] ELSE IF i < MaxSessions THEN f[i + 1] ELSE e]

Drop(s) ==
  /\ life' = Shift(life, s, "none")
  /\ is_active' = Shift(is_active, s, FALSE)
  /\ chunk_results' = Shift(chunk_results, s, <<>>)
  /\ pending_futures' = Shift(pending_futures, s, <<>>)
  /\ finished' = Shift(finished, s, {})
  /\ all_audio' = Shift(all_audio, s, <<>>)
  /\ executor_shutdown' = Shift(executor_shutdown, s, FALSE)
  /\ futures_to_wait' = Shift(futures_to_wait, s, <<>>)
  /\ fin_chunk' = Shift(fin_chunk, s, NoChunk)
  /\ completions' = Shift(completions, s, 0)
  /\ wait_expired' = Shift(wait_expired, s, {})
  /\ stop_returned' = {Ren(s, x) : x \in stop_returned \ {s}}
  /\ current_session' = Ren(s, current_session)
  /\ new_session' = Ren(s, new_session)
  /\ on_chunk_ready' = Ren(s, on_chunk_ready)

\* the references Drop renames, left as they are
KeepRefs == UNCHANGED <<current_session, new_session, on_chunk_ready>>

\* ------------------------------------------------------------------------
\* Session.on_chunk_ready, run by the device thread outside the engine mutex
\* ------------------------------------------------------------------------
on_chunk_ready_call(s, chunk) ==
  IF chunk.n = 0
  THEN UNCHANGED <<all_audio, pending_futures>> /\ dev' = [dev EXCEPT !.pc = "reacquire"]
  ELSE /\ all_audio' = [all_audio EXCEPT ![s] = Append(@, chunk.id)]
       /\ IF executor_shutdown[s]
          THEN \* submit() raises RuntimeError after shutdown
               /\ dev' = [dev EXCEPT !.pc = "reacquire", !.raised = TRUE]
               /\ UNCHANGED pending_futures
          ELSE /\ dev' = [dev EXCEPT !.pc = "reacquire"]
               /\ pending_futures' = [pending_futures EXCEPT ![s] = Append(@, chunk.id)]

AudioCallbackSink ==
  /\ dev.pc = "callback"
  /\ on_chunk_ready_call(dev.sink, dev.chunk)
  /\ UNCHANGED <<is_recording, on_chunk_ready, preroll, current_chunk,
                 silence_duration, rec_blocks, flushed>>
  /\ UNCHANGED <<life, is_active, chunk_results, finished, executor_shutdown,
                 futures_to_wait, fin_chunk>>
  /\ UNCHANGED <<ctlVars, mainVars, mgrVars, histVars>>
  /\ UNCHANGED finVars

\* the test of line 241 left out
stopped_while_released_never(rec) == FALSE

\* line 241: if not self.is_recording
stopped_while_released(rec) == ~rec

\* _audio_callback after the sink: re-acquire the mutex; `return` in the
\* finally clause when recording has stopped (it also drops an exception of
\* the sink); otherwise an exception leaves the callback and ends the stream.
AudioCallbackReacquire ==
  /\ dev.pc = "reacquire"
  /\ IF dev.sink # NoSession /\ life[dev.sink] = "complete" /\ Unfinished(dev.sink) = {}
     THEN Drop(dev.sink) /\ active_session' = Ren(dev.sink, active_session)
     ELSE UNCHANGED <<sessVars, histVars, active_session, wait_expired>> /\ KeepRefs
  /\ IF stopped_while_released(is_recording)
     THEN /\ dev' = [pc |-> "idle", sink |-> NoSession, chunk |-> NoChunk, raised |-> FALSE]
          /\ UNCHANGED silence_duration
     ELSE IF dev.raised
          THEN /\ dev' = [pc |-> "aborted", sink |-> NoSession, chunk |-> NoChunk, raised |-> TRUE]
               /\ UNCHANGED silence_duration
          ELSE /\ dev' = [pc |-> "idle", sink |-> NoSession, chunk |-> NoChunk, raised |-> FALSE]
               /\ silence_duration' = 0
  /\ UNCHANGED <<is_recording, preroll, current_chunk, rec_blocks, flushed>>
  /\ UNCHANGED <<ctlVars, final_chunk, busy_cue>>
  /\ UNCHANGED finDetail

\* ------------------------------------------------------------------------
\* SessionManager (session.py)
\* ------------------------------------------------------------------------
\* start_session without its busy test
SlotBusy_never == FALSE

\* start_session's test `self.active_session and self.active_session.is_active`
SlotBusy == active_session # NoSession /\ is_active[active_session]

FreeSlots == {s \in Sessions : life[s] = "none"}
NewSlot == CHOOSE s \in FreeSlots : \A r \in FreeSlots : s <= r

\* start_session(), under the manager mutex; the result is left in
\* new_session.  Session(...) builds the object with its default fields.
start_session ==
  IF SlotBusy
  THEN /\ busy_cue' = TRUE
       /\ new_session' = NoSession
       /\ UNCHANGED <<active_session, life>>
  ELSE /\ busy_cue' = FALSE
       /\ new_session' = NewSlot
       /\ active_session' = NewSlot
       /\ life' = [life EXCEPT ![NewSlot] = "new"]

\* _on_session_complete(session), under the manager mutex: the slot after it
on_session_complete(s) ==
  IF active_session = s THEN NoSession ELSE active_session

\* ------------------------------------------------------------------------
\* __main__.on_start / on_stop, run by a controller thread t
\* ------------------------------------------------------------------------
OnStopEntry == IF current_session = NoSession THEN "end" ELSE "stop_recording"

\* on_start, line 136-141: session = session_manager.start_session()
OnStart_StartSession(t) ==
  /\ pc[t] = "start_session"
  /\ start_session
  /\ IF new_session' = NoSession
     THEN pc' = [pc EXCEPT ![t] = "end"] /\ UNCHANGED current_session
     ELSE pc' = [pc EXCEPT ![t] = "session_start"] /\ current_session' = new_session'
  /\ UNCHANGED <<state, trigger_key_pressed, last_press_time, toggle_timer,
                 in_lock, handler, final_chunk>>
  /\ UNCHANGED <<is_active, chunk_results, pending_futures, finished,
                 all_audio, executor_shutdown, futures_to_wait, fin_chunk>>
  /\ UNCHANGED <<engVars, histVars>>
  /\ UNCHANGED finVars

\* on_start, line 150: session.start()
OnStart_SessionStart(t) ==
  /\ pc[t] = "session_start"
  /\ is_active' = [is_active EXCEPT ![new_session] = TRUE]
  /\ life' = [life EXCEPT ![new_session] = "active"]
  /\ pc' = [pc EXCEPT ![t] = "start_recording"]
  /\ UNCHANGED <<state, trigger_key_pressed, last_press_time, toggle_timer,
                 in_lock, handler>>
  /\ UNCHANGED <<chunk_results, pending_futures, finished,
                 all_audio, executor_shutdown, futures_to_wait, fin_chunk>>
  /\ UNCHANGED <<mainVars, engVars, mgrVars, histVars>>
  /\ UNCHANGED finVars

\* on_start, lines 153-154: attach the sink, audio_engine.start_recording()
OnStart_StartRecording(t) ==
  /\ pc[t] = "start_recording"
  /\ on_chunk_ready' = new_session
  /\ start_recording
  /\ new_session' = NoSession
  /\ pc' = [pc EXCEPT ![t] = "end"]
  /\ UNCHANGED <<state, trigger_key_pressed, last_press_time, toggle_timer,
                 in_lock, handler>>
  /\ UNCHANGED <<current_session, final_chunk>>
  /\ UNCHANGED <<mgrVars, sessVars, histVars>>
  /\ UNCHANGED finVars

\* on_stop, line 168: final_chunk = audio_engine.stop_recording()
OnStop_StopRecording(t) ==
  /\ pc[t] = "stop_recording"
  /\ stop_recording
  /\ stop_returned' = stop_returned \cup {current_session}
  /\ pc' = [pc EXCEPT ![t] = "finalize"]
  /\ UNCHANGED <<state, trigger_key_pressed, last_press_time, toggle_timer,
                 in_lock, handler, current_session, new_session>>
  /\ UNCHANGED completions
  /\ UNCHANGED <<mgrVars, sessVars>>
  /\ UNCHANGED finVars

\* on_stop, lines 173-176: current_session.finalize(final_chunk) starts the
\* finalization thread; current_session = None
OnStop_Finalize(t) ==
  /\ pc[t] = "finalize"
  /\ life' = [life EXCEPT ![current_session] = "fin_transcribe"]
  /\ fin_chunk' = [fin_chunk EXCEPT ![current_session] = final_chunk]
  /\ current_session' = NoSession
  /\ final_chunk' = NoChunk
  /\ pc' = [pc EXCEPT ![t] = "end"]
  /\ UNCHANGED <<state, trigger_key_pressed, last_press_time, toggle_timer,
                 in_lock, handler, new_session>>
  /\ UNCHANGED <<is_active, chunk_results, pending_futures, finished,
                 all_audio, executor_shutdown, futures_to_wait>>
  /\ UNCHANGED <<stop_returned, completions>>
  /\ UNCHANGED <<engVars, mgrVars>>
  /\ UNCHANGED finVars

\* ------------------------------------------------------------------------
\* InputController (input.py).  A handler takes _lock, makes its transition
\* and runs the start/stop callback before it leaves the `with` block.
\* ------------------------------------------------------------------------
\* time() - last_press_time as a press handler can find it, in units of
\* double_tap_threshold and capped at one unit: before the first press
\* last_press_time is 0.0 and the difference is the wall clock itself
Elapsed == IF last_press_time = 0 THEN {1} ELSE {0, 1}

\* _cancel_toggle_timer
cancel_toggle_timer == toggle_timer' = "none"

\* on_key_press(trigger), gap below the threshold: _enter_toggle_mode
\* (nothing but last_press_time changes unless the state is idle)
PressDoubleTap ==
  /\ pc["listener"] = "idle" /\ in_lock = "free"
  /\ ~trigger_key_pressed
  /\ \E elapsed \in Elapsed : elapsed < config.double_tap_threshold
  /\ state = "idle" => FreeSlots # {}
  /\ trigger_key_pressed' = TRUE
  /\ in_lock' = "listener"
  /\ IF state = "idle"
     THEN /\ state' = "toggle_recording"
          /\ pc' = [pc EXCEPT !["listener"] = "start_session"]
          /\ handler' = [handler EXCEPT !["listener"] = "press_toggle"]
     ELSE /\ state' = state
          /\ pc' = [pc EXCEPT !["listener"] = "end"]
          /\ handler' = [handler EXCEPT !["listener"] = "press"]
  /\ UNCHANGED <<last_press_time, toggle_timer>>
  /\ UNCHANGED <<mainVars, engVars, mgrVars, sessVars, histVars>>
  /\ UNCHANGED finVars

\* on_key_press(trigger) in idle, gap not below the threshold: _start_recording
PressStart ==
  /\ pc["listener"] = "idle" /\ in_lock = "free"
  /\ ~trigger_key_pressed
  /\ \E elapsed \in Elapsed : elapsed >= config.double_tap_threshold
  /\ state = "idle"
  /\ FreeSlots # {}
  /\ trigger_key_pressed' = TRUE
  /\ in_lock' = "listener"
  /\ state' = "recording"
  /\ pc' = [pc EXCEPT !["listener"] = "start_session"]
  /\ handler' = [handler EXCEPT !["listener"] = "press"]
  /\ UNCHANGED <<last_press_time, toggle_timer>>
  /\ UNCHANGED <<mainVars, engVars, mgrVars, sessVars, histVars>>
  /\ UNCHANGED finVars

\* on_key_press(trigger) in toggle_recording, gap not below the threshold:
\* _stop_recording
PressStop ==
  /\ pc["listener"] = "idle" /\ in_lock = "free"
  /\ ~trigger_key_pressed
  /\ \E elapsed \in Elapsed : elapsed >= config.double_tap_threshold
  /\ state = "toggle_recording"
  /\ trigger_key_pressed' = TRUE
  /\ in_lock' = "listener"
  /\ state' = "idle"
  /\ cancel_toggle_timer
  /\ pc' = [pc EXCEPT !["listener"] = OnStopEntry]
  /\ handler' = [handler EXCEPT !["listener"] = "press"]
  /\ UNCHANGED last_press_time
  /\ UNCHANGED <<mainVars, engVars, mgrVars, sessVars, histVars>>
  /\ UNCHANGED finVars

\* on_key_release(trigger)
KeyRelease ==
  /\ pc["listener"] = "idle" /\ in_lock = "free"
  /\ trigger_key_pressed
  /\ trigger_key_pressed' = FALSE
  /\ in_lock' = "listener"
  /\ handler' = [handler EXCEPT !["listener"] = "release"]
  /\ IF state = "recording"
     THEN /\ state' = "idle"
          /\ cancel_toggle_timer
          /\ pc' = [pc EXCEPT !["listener"] = OnStopEntry]
     ELSE /\ pc' = [pc EXCEPT !["listener"] = "end"]
          /\ UNCHANGED <<state, toggle_timer>>
  /\ UNCHANGED last_press_time
  /\ UNCHANGED <<mainVars, engVars, mgrVars, sessVars, histVars>>
  /\ UNCHANGED finVars

\* on_key_press(esc) with shift held: _emergency_reset.  The transition is made
\* under _lock; on_emergency_reset is not set by main(), so on_stop runs, after
\* the lock has been released.
EmergencyReset ==
  /\ pc["listener"] = "idle" /\ in_lock = "free"
  /\ state' = "idle"
  /\ trigger_key_pressed' = FALSE
  /\ cancel_toggle_timer
  /\ pc' = [pc EXCEPT !["listener"] = OnStopEntry]
  /\ handler' = [handler EXCEPT !["listener"] = "reset"]
  /\ UNCHANGED <<last_press_time, in_lock>>
  /\ UNCHANGED <<mainVars, engVars, mgrVars, sessVars, histVars>>
  /\ UNCHANGED finVars

\* The handler of thread t returns: a press handler arms the safety timer
\* (_enter_toggle_mode) and sets last_press_time = now; _lock is released.
HandlerEnd(t) ==
  /\ pc[t] = "end"
  /\ pc' = [pc EXCEPT ![t] = "idle"]
  /\ handler' = [handler EXCEPT ![t] = "none"]
  /\ in_lock' = IF in_lock = t THEN "free" ELSE in_lock
  /\ toggle_timer' = IF handler[t] = "press_toggle" THEN "armed" ELSE toggle_timer
  /\ last_press_time' = IF handler[t] \in {"press", "press_toggle"} THEN 1 ELSE last_press_time
  /\ busy_cue' = FALSE
  /\ UNCHANGED <<state, trigger_key_pressed>>
  /\ UNCHANGED active_session
  /\ UNCHANGED <<mainVars, engVars, sessVars, histVars>>
  /\ UNCHANGED finVars

\* The safety timer expires: its thread starts _toggle_timeout and waits for
\* _lock.
TimerFire ==
  /\ toggle_timer = "armed"
  /\ pc["timer"] = "idle"
  /\ toggle_timer' = "none"
  /\ pc' = [pc EXCEPT !["timer"] = "blocked"]
  /\ UNCHANGED <<state, trigger_key_pressed, last_press_time, in_lock, handler>>
  /\ UNCHANGED <<mainVars, engVars, mgrVars, sessVars, histVars>>
  /\ UNCHANGED finVars

\* _toggle_timeout under _lock
ToggleTimeout ==
  /\ pc["timer"] = "blocked" /\ in_lock = "free"
  /\ IF state = "toggle_recording"
     THEN /\ state' = "idle"
          /\ cancel_toggle_timer
          /\ in_lock' = "timer"
          /\ pc' = [pc EXCEPT !["timer"] = OnStopEntry]
          /\ handler' = [handler EXCEPT !["timer"] = "timeout"]
     ELSE /\ pc' = [pc EXCEPT !["timer"] = "idle"]
          /\ UNCHANGED <<state, toggle_timer, in_lock, handler>>
  /\ UNCHANGED <<trigger_key_pressed, last_press_time>>
  /\ UNCHANGED <<mainVars, engVars, mgrVars, sessVars, histVars>>
  /\ UNCHANGED finVars

\* ------------------------------------------------------------------------
\* Session: chunk jobs and the finalization thread (session.py)
\* ------------------------------------------------------------------------
InSeq(x, q) == \E i \in 1..Len(q) : q[i] = x

\* _transcribe_chunk_with_consensus for a chunk submitted by on_chunk_ready:
\* the job returns and records the chunk's outcome (line 208)
ChunkJobDone(s) ==
  \E k \in 1..Len(pending_futures[s]) :
    /\ pending_futures[s][k] \notin finished[s]
    /\ IF life[s] = "complete" /\ dev.sink # s /\ Unfinished(s) = {k}
       THEN /\ Drop(s)
            /\ active_session' = Ren(s, active_session)
            /\ dev' = [dev EXCEPT !.sink = Ren(s, @)]
       ELSE /\ chunk_results' = [chunk_results EXCEPT ![s] = Append(@, pending_futures[s][k])]
            /\ finished' = [finished EXCEPT ![s] = @ \cup {pending_futures[s][k]}]
            /\ UNCHANGED <<life, is_active, pending_futures, all_audio,
                           executor_shutdown, futures_to_wait, fin_chunk>>
            /\ UNCHANGED <<histVars, active_session, dev>>
            /\ KeepRefs
            /\ UNCHANGED wait_expired
    /\ UNCHANGED <<is_recording, preroll, current_chunk, silence_duration,
                   rec_blocks, flushed>>
    /\ UNCHANGED <<ctlVars, final_chunk, busy_cue>>
    /\ UNCHANGED finDetail

\* the same job started after the executor was shut down: its own submit()
\* of the provider calls raises, no outcome is recorded
ChunkJobRaises(s) ==
  \E k \in 1..Len(pending_futures[s]) :
    /\ pending_futures[s][k] \notin finished[s]
    /\ executor_shutdown[s]
    /\ IF life[s] = "complete" /\ dev.sink # s /\ Unfinished(s) = {k}
       THEN /\ Drop(s)
            /\ active_session' = Ren(s, active_session)
            /\ dev' = [dev EXCEPT !.sink = Ren(s, @)]
       ELSE /\ finished' = [finished EXCEPT ![s] = @ \cup {pending_futures[s][k]}]
            /\ UNCHANGED <<life, is_active, chunk_results, pending_futures,
                           all_audio, executor_shutdown, futures_to_wait, fin_chunk>>
            /\ UNCHANGED <<histVars, active_session, dev>>
            /\ KeepRefs
            /\ UNCHANGED wait_expired
    /\ UNCHANGED <<is_recording, preroll, current_chunk, silence_duration,
                   rec_blocks, flushed>>
    /\ UNCHANGED <<ctlVars, final_chunk, busy_cue>>
    /\ UNCHANGED finDetail

\* _finalize_impl, lines 230-250: keep the final chunk's audio and transcribe
\* it in the finalization thread itself
Finalize_TranscribeFinal(s) ==
  /\ life[s] = "fin_transcribe"
  /\ IF fin_chunk[s].n > 0
     THEN /\ all_audio' = [all_audio EXCEPT ![s] = Append(@, fin_chunk[s].id)]
          /\ chunk_results' = [chunk_results EXCEPT ![s] = Append(@, fin_chunk[s].id)]
     ELSE UNCHANGED <<all_audio, chunk_results>>
  /\ life' = [life EXCEPT ![s] = "fin_snapshot"]
  /\ fin_chunk' = [fin_chunk EXCEPT ![s] = NoChunk]
  /\ UNCHANGED <<is_active, pending_futures, finished, executor_shutdown,
                 futures_to_wait>>
  /\ UNCHANGED <<ctlVars, mainVars, engVars, mgrVars, histVars>>
  /\ UNCHANGED finVars

\* lines 253-254: futures_to_wait = list(self.pending_futures)
Finalize_Snapshot(s) ==
  /\ life[s] = "fin_snapshot"
  /\ futures_to_wait' = [futures_to_wait EXCEPT ![s] = pending_futures[s]]
  /\ life' = [life EXCEPT ![s] = "fin_wait"]
  /\ UNCHANGED <<is_active, chunk_results, pending_futures, finished,
                 all_audio, executor_shutdown, fin_chunk>>
  /\ UNCHANGED <<ctlVars, mainVars, engVars, mgrVars, histVars>>
  /\ UNCHANGED finVars

\* lines 256-260: future.result(timeout=30) returns, the job being done
Finalize_WaitDone(s) ==
  /\ life[s] = "fin_wait"
  /\ futures_to_wait[s] # <<>>
  /\ Head(futures_to_wait[s]) \in finished[s]
  /\ futures_to_wait' = [futures_to_wait EXCEPT ![s] = Tail(@)]
  /\ UNCHANGED <<life, is_active, chunk_results, pending_futures, finished,
                 all_audio, executor_shutdown, fin_chunk>>
  /\ UNCHANGED <<ctlVars, mainVars, engVars, mgrVars, histVars>>
  /\ UNCHANGED finVars

\* lines 256-260: future.result(timeout=30) times out, the exception is dropped
Finalize_WaitTimeout(s) ==
  /\ life[s] = "fin_wait"
  /\ futures_to_wait[s] # <<>>
  /\ Head(futures_to_wait[s]) \notin finished[s]
  /\ futures_to_wait' = [futures_to_wait EXCEPT ![s] = Tail(@)]
  /\ UNCHANGED <<life, is_active, chunk_results, pending_futures, finished,
                 all_audio, executor_shutdown, fin_chunk>>
  /\ UNCHANGED <<ctlVars, mainVars, engVars, mgrVars, histVars>>
  /\ wait_expired' = [wait_expired EXCEPT ![s] = @ \cup {Head(futures_to_wait[s])}]
  /\ UNCHANGED finDetail

\* lines 265-361: aggregate, correct, output.  Every exception is caught at
\* line 358; none of the variables of this specification is written.
Finalize_Deliver(s) ==
  /\ life[s] = "fin_wait"
  /\ futures_to_wait[s] = <<>>
  /\ life' = [life EXCEPT ![s] = "fin_finally"]
  /\ wait_expired' = [wait_expired EXCEPT ![s] = {}]   \* the wait loop is left
  /\ UNCHANGED <<is_active, chunk_results, pending_futures, finished,
                 all_audio, executor_shutdown, futures_to_wait, fin_chunk>>
  /\ UNCHANGED <<ctlVars, mainVars, engVars, mgrVars, histVars>>
  /\ UNCHANGED finDetail

\* finally clause, lines 382-383: is_active = False; _executor.shutdown()
Finalize_Finally(s) ==
  /\ life[s] = "fin_finally"
  /\ is_active' = [is_active EXCEPT ![s] = FALSE]
  /\ executor_shutdown' = [executor_shutdown EXCEPT ![s] = TRUE]
  /\ life' = [life EXCEPT ![s] = "fin_callback"]
  /\ UNCHANGED <<chunk_results, pending_futures, finished, all_audio,
                 futures_to_wait, fin_chunk>>
  /\ UNCHANGED <<ctlVars, mainVars, engVars, mgrVars, histVars>>
  /\ UNCHANGED finVars

\* finally clause, line 384: self.on_complete(self)
Finalize_OnComplete(s) ==
  /\ life[s] = "fin_callback"
  /\ IF dev.sink # s /\ Unfinished(s) = {}
     THEN /\ Drop(s)
          /\ active_session' = Ren(s, on_session_complete(s))
          /\ dev' = [dev EXCEPT !.sink = Ren(s, @)]
     ELSE /\ active_session' = on_session_complete(s)
          /\ completions' = [completions EXCEPT ![s] = @ + 1]
          /\ life' = [life EXCEPT ![s] = "complete"]
          /\ UNCHANGED <<is_active, chunk_results, pending_futures, finished,
                         all_audio, executor_shutdown, futures_to_wait, fin_chunk>>
          /\ UNCHANGED <<stop_returned, dev>>
          /\ KeepRefs
          /\ UNCHANGED wait_expired
  /\ UNCHANGED <<is_recording, preroll, current_chunk, silence_duration,
                 rec_blocks, flushed>>
  /\ UNCHANGED <<ctlVars, final_chunk, busy_cue>>
  /\ UNCHANGED finDetail

\* ------------------------------------------------------------------------
\* The running system
\* ------------------------------------------------------------------------
Next ==
  \/ PressDoubleTap
  \/ PressStart
  \/ PressStop
  \/ KeyRelease
  \/ EmergencyReset
  \/ TimerFire
  \/ ToggleTimeout
  \/ \E t \in Threads : HandlerEnd(t)
  \/ \E t \in Threads : OnStart_StartSession(t)
  \/ \E t \in Threads : OnStart_SessionStart(t)
  \/ \E t \in Threads : OnStart_StartRecording(t)
  \/ \E t \in Threads : OnStop_StopRecording(t)
  \/ \E t \in Threads : OnStop_Finalize(t)
  \/ AudioCallbackPreroll
  \/ AudioCallbackLoud
  \/ AudioCallbackSilent
  \/ AudioCallbackSink
  \/ AudioCallbackReacquire
  \/ \E s \in Sessions : ChunkJobDone(s)
  \/ \E s \in Sessions : ChunkJobRaises(s)
  \/ \E s \in Sessions : Finalize_TranscribeFinal(s)
  \/ \E s \in Sessions : Finalize_Snapshot(s)
  \/ \E s \in Sessions : Finalize_WaitDone(s)
  \/ \E s \in Sessions : Finalize_WaitTimeout(s)
  \/ \E s \in Sessions : Finalize_Deliver(s)
  \/ \E s \in Sessions : Finalize_Finally(s)
  \/ \E s \in Sessions : Finalize_OnComplete(s)

Spec == Init /\ [][Next]_vars

\* ------------------------------------------------------------------------
\* Texts.  A text is a sequence of characters; None and "" are both <<>>
\* where the code tests them for truth only.
\* ------------------------------------------------------------------------
RECURSIVE split(_)
\* str.split(): the words of a text
split(t) ==
  IF t = <<>> THEN <<>>
  ELSE IF Head(t) = " " THEN split(Tail(t))
  ELSE LET ends == {i \in 1..Len(t) : i = Len(t) \/ t[i + 1] = " "}
           n == CHOOSE i \in ends : \A j \in ends : i <= j
       IN <<SubSeq(t, 1, n)>> \o split(SubSeq(t, n + 1, Len(t)))

RECURSIVE join(_, _)
\* sep.join(texts)
join(sep, texts) ==
  IF texts = <<>> THEN <<>>
  ELSE IF Len(texts) = 1 THEN texts[1]
  ELSE texts[1] \o sep \o join(sep, Tail(texts))

\* str.lower() on the characters of the model
lower(t) == [i \in 1..Len(t) |-> IF t[i] = "A" THEN "a" ELSE t[i]]

\* re.sub(r'[^\w\s]', '', text)
strip_punctuation(t) == SelectSeq(t, LAMBDA c : c \notin {".", ",", "!"})

\* consensus.normalize_for_matching
normalize_for_matching(t) == join(<<" ">>, split(lower(strip_punctuation(t))))

\* consensus.FILLER_WORDS, one of its single words and one of its phrases:
\* "um" and "i mean"
FILLER_WORDS == {<<"u", "m">>, <<"i", " ", "m", "e", "a", "n">>}

\* `filler in text_lower` on strings: filler occurs in t, character by character
occurs_in(filler, t) ==
  \E k \in 0..(Len(t) - Len(filler)) : SubSeq(t, k + 1, k + Len(filler)) = filler

\* consensus._contains_filler: a word of the text is a filler, or a filler of
\* several words occurs in the text
contains_filler(t) ==
  \/ \E i \in 1..Len(split(lower(t))) : split(lower(t))[i] \in FILLER_WORDS
  \/ \E filler \in FILLER_WORDS :
       (\E k \in 1..Len(filler) : filler[k] = " ") /\ occurs_in(filler, lower(t))

\* the threshold test without its last match
count_reaches_early(count, cfg) == count >= cfg.consensus_threshold - 1

\* check_consensus line 81: count >= config.consensus_threshold
count_reaches(count, cfg) == count >= cfg.consensus_threshold

\* check_consensus line 83: word_count <= config.consensus_max_words
words_within(word_count, cfg) == word_count <= cfg.consensus_max_words

\* the last of the matching results
last_match(matching) == CHOOSE i \in matching : \A j \in matching : j <= i

\* check_consensus lines 89-91: the first of the matching results
first_match(matching) == CHOOSE i \in matching : \A j \in matching : i <= j

\* consensus.check_consensus; <<>> is None
check_consensus(results, cfg) ==
  LET norm == [i \in 1..Len(results) |-> normalize_for_matching(results[i])]
      kept == {i \in 1..Len(results) : norm[i] # <<>>}
      count(i) == Cardinality({j \in kept : norm[j] = norm[i]})
      \* Counter.most_common(1): the highest count, the first inserted on a tie
      winner == CHOOSE i \in kept :
                  /\ \A j \in kept : count(j) <= count(i)
                  /\ \A j \in kept : (count(j) = count(i) /\ j < i) => norm[j] = norm[i]
      first == first_match({i \in kept : norm[i] = norm[winner]})
  IN IF kept = {} THEN <<>>
     ELSE IF /\ count_reaches(count(winner), cfg)
             /\ words_within(Len(split(norm[winner])), cfg)
             /\ ~contains_filler(norm[winner])
          THEN results[first]
          ELSE <<>>

RECURSIVE as_completed(_, _)
\* _transcribe_chunk_with_consensus, lines 144-208: the texts of the provider
\* calls that return, in the order they return (a call that raises adds
\* nothing); the loop ends at the first consensus
as_completed(arrivals, results) ==
  IF arrivals = <<>> THEN [results |-> results, consensus |-> <<>>]
  ELSE LET rs == Append(results, Head(arrivals))
           consensus == IF Len(rs) >= config.consensus_threshold
                        THEN check_consensus(rs, config) ELSE <<>>
       IN IF consensus # <<>> THEN [results |-> rs, consensus |-> consensus]
          ELSE as_completed(Tail(arrivals), rs)

transcribe_chunk_with_consensus(arrivals) == as_completed(arrivals, <<>>)

\* the last of the longest
best_last(results) ==
  LET i == CHOOSE i \in 1..Len(results) :
             /\ \A j \in 1..Len(results) : Len(split(results[j])) <= Len(split(results[i]))
             /\ \A j \in i + 1..Len(results) : Len(split(results[j])) < Len(split(results[i]))
  IN results[i]

\* max(results, key=lambda r: len(r.text.split())): the first of the longest
best(results) ==
  LET i == CHOOSE i \in 1..Len(results) :
             /\ \A j \in 1..Len(results) : Len(split(results[j])) <= Len(split(results[i]))
             /\ \A j \in 1..i - 1 : Len(split(results[j])) < Len(split(results[i]))
  IN results[i]

RECURSIVE aggregate_results(_)
\* Session._aggregate_results
aggregate_results(cr) ==
  IF cr = <<>> THEN [chunk_texts |-> <<>>, all_results |-> <<>>]
  ELSE LET rest == aggregate_results(Tail(cr))
           c == Head(cr)
           texts == IF c.consensus # <<>> THEN <<c.consensus>>
                    ELSE IF c.results # <<>> THEN <<best(c.results)>>
                    ELSE <<>>
       IN [chunk_texts |-> texts \o rest.chunk_texts,
           all_results |-> c.results \o rest.all_results]

\* ------------------------------------------------------------------------
\* CorrectionRouter (router.py)
\* ------------------------------------------------------------------------
\* record_failure, lines 118-119: the count of p after it
failures_after_failure_n(f, p) == f[p] + 1

PROVIDERS ==
  << [name |-> "groq", latency_ms |-> 400, priority |-> 2],
     [name |-> "gemini", latency_ms |-> 700, priority |-> 1],
     [name |-> "openrouter", latency_ms |-> 900, priority |-> 3] >>

\* get_available_providers, with the back-offs b
get_available_providers(b) ==
  SelectSeq(PROVIDERS, LAMBDA p : p.name \in api_keys /\ p.name \notin b)

\* min(available, key=...): the name of the first provider with the least key
min_latency(available) ==
  LET i == CHOOSE i \in 1..Len(available) :
             /\ \A j \in 1..Len(available) : available[i].latency_ms <= available[j].latency_ms
             /\ \A j \in 1..i - 1 : available[i].latency_ms < available[j].latency_ms
  IN available[i].name
\* line 106 with the key of line 103
min_priority_by_latency(available) == min_latency(available)
min_priority(available) ==
  LET i == CHOOSE i \in 1..Len(available) :
             /\ \A j \in 1..Len(available) : available[i].priority <= available[j].priority
             /\ \A j \in 1..i - 1 : available[i].priority < available[j].priority
  IN available[i].name

\* select_provider; "none" is None
select_provider(word_count) ==
  LET available == get_available_providers(backoff)
  IN IF available = <<>> THEN "none"
     ELSE IF word_count < SHORT_INPUT_WORD_THRESHOLD THEN min_latency(available)
     ELSE min_priority(available)

\* get_fallback(exclude), with the back-offs b
get_fallback(exclude, b) ==
  LET available == SelectSeq(get_available_providers(b), LAMBDA p : p.name # exclude)
  IN IF available = <<>> THEN "none" ELSE min_priority(available)

\* `now < self._backoff_until.get(p.name, 0)` of line 82, too late by a second
in_backoff_late(t, until) == t + 1 < until
\* line 82: the provider is skipped
in_backoff(t, until) == t < until

\* the back-offs of get_available_providers at time t with the table u
backoffs_at(t, u) == {p \in Providers : in_backoff(t, u[p])}

\* line 123 without the cap
backoff_seconds_uncapped(failures) == 2 ^ failures
\* line 123
backoff_seconds(failures) == Min(2 ^ failures, MAX_BACKOFF_SECONDS)

\* record_failure: the table after it, called at time t
until_after_failure(f, u, p, t) ==
  IF failures_after_failure_n(f, p) >= BACKOFF_FAILURES
  THEN [u EXCEPT ![p] = t + backoff_seconds(failures_after_failure_n(f, p))]
  ELSE u

\* record_success: the table after it
until_after_success(u, p) == [u EXCEPT ![p] = 0]

\* record_failure: the failure counts and the back-offs after it
failures_after_failure(f, p) == [f EXCEPT ![p] = failures_after_failure_n(f, p)]
backoff_after_failure(f, b, p) ==
  IF failures_after_failure(f, p)[p] >= BACKOFF_FAILURES THEN b \cup {p} ELSE b

\* record_success
failures_after_success(f, p) == [f EXCEPT ![p] = 0]
backoff_after_success(b, p) == b \ {p}

\* ------------------------------------------------------------------------
\* SpecFin: one finalization in detail.  Session 1 is the active session, its
\* recording has been stopped and finalize() has started the thread; the
\* chunk outcomes, the selection, the captured context, the window and the
\* configured backends are inputs.
\* ------------------------------------------------------------------------
\* texts the transcription providers return
ProviderTexts == {<<>>, <<"a">>, <<"A", ".">>, <<"a", " ", "a">>, <<"u", "m">>}

\* what the provider calls of one chunk return, in order; calls that raise
\* are left out
ChunkArrivals ==
  { <<>>,
    << <<>> >>,
    << <<"a">>, <<"A", ".">> >>,
    << <<"a">>, <<"a", " ", "a">> >>,
    << <<"u", "m">>, <<"a">> >> }

ChunkOutcomes == {transcribe_chunk_with_consensus(a) : a \in ChunkArrivals}
OutcomeSeqs == UNION {[1..n -> ChunkOutcomes] : n \in 0..MaxChunks}

\* bundle ids get_app_context() can return; it never returns None
Bundles == {"", "com.foo", "com.bar"}
\* the content of one stream event; <<>> is a delta without content
Contents == {<<>>, <<"x">>}
\* the text of a reply that is not streamed
Replies == {<<>>, <<"x", "y">>}

FinInit ==
  /\ state = "idle"
  /\ trigger_key_pressed = FALSE
  /\ last_press_time = 1
  /\ toggle_timer = "none"
  /\ in_lock = "free"
  /\ pc = [t \in Threads |-> "idle"]
  /\ handler = [t \in Threads |-> "none"]
  /\ current_session = NoSession
  /\ new_session = NoSession
  /\ final_chunk = NoChunk
  /\ is_recording = FALSE
  /\ on_chunk_ready = NoSession
  /\ preroll = 0
  /\ current_chunk = 0
  /\ silence_duration = 0
  /\ rec_blocks = 0
  /\ dev = [pc |-> "idle", sink |-> NoSession, chunk |-> NoChunk, raised |-> FALSE]
  /\ flushed = 0
  /\ active_session = 1
  /\ busy_cue = FALSE
  /\ life = [s \in Sessions |-> IF s = 1 THEN "fin_transcribe" ELSE "none"]
  /\ is_active = [s \in Sessions |-> s = 1]
  /\ \E cr \in OutcomeSeqs :
       chunk_results = [s \in Sessions |-> IF s = 1 THEN cr ELSE <<>>]
  /\ pending_futures = [s \in Sessions |-> <<>>]
  /\ finished = [s \in Sessions |-> {}]
  /\ all_audio = [s \in Sessions |-> <<>>]
  /\ executor_shutdown = [s \in Sessions |-> FALSE]
  /\ futures_to_wait = [s \in Sessions |-> <<>>]
  /\ fin_chunk = [s \in Sessions |-> NoChunk]
  /\ stop_returned = {1}
  /\ completions = [s \in Sessions |-> 0]
  /\ wait_expired = [s \in Sessions |-> {}]
  /\ fpc = "transcribe"
  /\ selected_text \in {<<>>, <<"s">>}
  /\ context \in {"none", "com.foo"}
  /\ window \in Bundles
  /\ api_keys \in SUBSET Providers
  /\ provider_failures = [p \in Providers |-> 0]
  /\ backoff = {}
  /\ output_lock = "free"
  /\ out = <<>>
  /\ raised = FALSE
  /\ chunk_texts = <<>>
  /\ all_results = <<>>
  /\ combined_text = <<>>
  /\ can_stream = FALSE
  /\ streamed_tokens = <<>>
  /\ final_text = <<>>
  /\ text_arg = <<>>
  /\ llm = NoCall
  /\ client_calls = 0
  /\ JobIdle
  /\ RouterIdle
  /\ RingIdle
  /\ KeyIdle
  /\ ChunkIdle /\ LockIdle

\* what the steps of _finalize_impl after line 262 never write
finFixed == <<ctlVars, mainVars, engVars, busy_cue, chunk_results,
              pending_futures, finished, all_audio, futures_to_wait, fin_chunk,
              stop_returned, selected_text, context, api_keys, jobVars,
              routerVars, ringVars, keyVars, chunkVars, lockVars,
              wait_expired>>
finSession == <<life, is_active, executor_shutdown, active_session, completions>>
finRouter == <<provider_failures, backoff>>
finLocals == <<chunk_texts, all_results, combined_text>>

\* what get_app_context() returns changes (the user has brought another
\* window to the front and the cached answer has expired), while the
\* finalization can still query the app context or type
WindowChange ==
  /\ fpc \notin {"idle", "finally", "on_complete", "done"}
  /\ window' \in Bundles \ {window}
  /\ UNCHANGED <<finFixed, finSession, finRouter, finLocals>>
  /\ UNCHANGED <<fpc, output_lock, out, raised, can_stream, streamed_tokens,
                 final_text, text_arg, llm, client_calls>>

\* the test of _output without its check that both contexts exist
window_changed_unguarded(ctx, cur) == cur # ctx

\* the test of _output, lines 429-430, and of can_stream, lines 312-316
window_changed(ctx, cur) == ctx # "none" /\ cur # "none" /\ cur # ctx
window_same(ctx, cur) == ctx # "none" /\ cur # "none" /\ cur = ctx

\* a `return` that leaves _finalize_impl at once
on_return_leaves == "done"

\* where a `return` inside the try block of _finalize_impl goes
on_return == "finally"

\* lines 230-262: the final chunk is transcribed and the pending futures are
\* waited for.  as_completed's timeout is caught at line 190 where
\* concurrent.futures.TimeoutError is the builtin TimeoutError; elsewhere it
\* leaves _transcribe_chunk_with_consensus and reaches line 358.
Fin_Transcribe ==
  /\ fpc = "transcribe"
  /\ \E timeout_escapes \in BOOLEAN :
       /\ raised' = timeout_escapes
       /\ fpc' = IF timeout_escapes THEN "finally" ELSE "aggregate"
  /\ UNCHANGED <<finFixed, finSession, finRouter, finLocals>>
  /\ UNCHANGED <<window, output_lock, out, can_stream, streamed_tokens,
                 final_text, text_arg, llm, client_calls>>

\* line 288 with the consensus of the first chunk of any number of chunks
first_chunk_consensus(cr) == Len(cr) >= 1 /\ cr[1].consensus # <<>>
\* line 288: `len(self.chunk_results) == 1 and self.chunk_results[0][1]`
single_chunk_consensus(cr) == Len(cr) = 1 /\ cr[1].consensus # <<>>

\* lines 265-292: aggregate, then choose the path
Fin_Aggregate ==
  /\ fpc = "aggregate"
  /\ LET agg == aggregate_results(chunk_results[1])
     IN /\ chunk_texts' = agg.chunk_texts
        /\ all_results' = agg.all_results
        /\ IF agg.chunk_texts = <<>>
           THEN /\ fpc' = on_return
                /\ UNCHANGED <<combined_text, text_arg>>
           ELSE /\ combined_text' = join(<<" ">>, agg.chunk_texts)
                /\ IF selected_text # <<>>
                   THEN fpc' = "edit" /\ UNCHANGED text_arg
                   ELSE IF single_chunk_consensus(chunk_results[1])
                        THEN fpc' = "output" /\ text_arg' = chunk_results[1][1].consensus
                        ELSE fpc' = "check_stream" /\ UNCHANGED text_arg
  /\ UNCHANGED <<finFixed, finSession, finRouter>>
  /\ UNCHANGED <<window, output_lock, out, raised, can_stream, streamed_tokens,
                 final_text, llm, client_calls>>

\* lines 312-316: can_stream, from one query of the app context
Fin_CheckStream ==
  /\ fpc = "check_stream"
  /\ can_stream' = window_same(context, window)
  /\ fpc' = "correct"
  /\ UNCHANGED <<finFixed, finSession, finRouter, finLocals>>
  /\ UNCHANGED <<window, output_lock, out, raised, streamed_tokens,
                 final_text, text_arg, llm, client_calls>>

\* max(len(r.text.split()) for r in results)
total_words(results) ==
  LET i == CHOOSE i \in 1..Len(results) :
             \A j \in 1..Len(results) : Len(split(results[j])) <= Len(split(results[i]))
  IN Len(split(results[i]))

\* a call of the correction client in mode m ("stream": correct_with_llm with
\* on_delta, "plain": correct_with_llm without, "edit": edit_text_with_llm)
\* up to its first backend call
client_begin(m) ==
  LET provider == IF m = "edit" THEN select_provider(EDIT_WORD_COUNT)
                  ELSE IF all_results = <<>> THEN "none"
                  ELSE select_provider(total_words(all_results))
  IN /\ client_calls' = client_calls + 1
     /\ IF provider = "none"
        THEN /\ llm' = [NoCall EXCEPT !.mode = m, !.returned = TRUE,
                                      !.result = IF m = "edit" THEN selected_text ELSE <<>>]
             /\ fpc' = "client_returned"
        ELSE /\ llm' = [NoCall EXCEPT !.mode = m, !.provider = provider]
             /\ fpc' = "backend"

\* line 278: edit_text_with_llm(selected_text, combined_text, config)
Fin_EditCall ==
  /\ fpc = "edit"
  /\ client_begin("edit")
  /\ UNCHANGED <<finFixed, finSession, finRouter, finLocals>>
  /\ UNCHANGED <<window, output_lock, out, raised, can_stream, streamed_tokens,
                 final_text, text_arg>>

\* lines 318-352: correct_with_llm, with on_delta=on_token when can_stream
Fin_CorrectCall ==
  /\ fpc = "correct"
  /\ client_begin(IF can_stream THEN "stream" ELSE "plain")
  /\ UNCHANGED <<finFixed, finSession, finRouter, finLocals>>
  /\ UNCHANGED <<window, output_lock, out, raised, can_stream, streamed_tokens,
                 final_text, text_arg>>

\* the backends that read their reply as a stream
Streams(call) ==
  call.provider = "openrouter" \/ (call.provider = "groq" /\ call.mode = "stream")

\* on_token, lines 323-326: keep the token and type it under the output mutex
on_token(token) ==
  /\ output_lock = "free"
  /\ streamed_tokens' = Append(streamed_tokens, token)
  /\ out' = Append(out, [op |-> "type", text |-> token])

\* correct_with_llm lines 146-162 and edit_text_with_llm lines 464-473, after
\* a backend call has returned result
backend_returned(result) ==
  LET failed == result = <<>>
      rec == llm.mode # "edit"
      f1 == IF ~rec THEN provider_failures
            ELSE IF failed THEN failures_after_failure(provider_failures, llm.provider)
            ELSE failures_after_success(provider_failures, llm.provider)
      b1 == IF ~rec THEN backoff
            ELSE IF failed THEN backoff_after_failure(provider_failures, backoff, llm.provider)
            ELSE backoff_after_success(backoff, llm.provider)
      fallback == IF failed /\ ~llm.fallback THEN get_fallback(llm.provider, b1) ELSE "none"
  IN /\ provider_failures' = f1
     /\ backoff' = b1
     /\ IF fallback # "none"
        THEN /\ llm' = [llm EXCEPT !.provider = fallback, !.fallback = TRUE,
                                   !.collected = <<>>, !.events = 0]
             /\ fpc' = "backend"
        ELSE /\ llm' = [llm EXCEPT !.returned = TRUE, !.collected = <<>>, !.events = 0,
                                   !.result = IF failed /\ llm.mode = "edit"
                                              THEN selected_text ELSE result]
             /\ fpc' = "client_returned"

\* _call_groq lines 279-283, _call_openrouter lines 383-415: one event of the
\* stream; a delta with content is collected and handed to on_delta
Backend_Content ==
  /\ fpc = "backend"
  /\ Streams(llm)
  /\ llm.events < MaxFragments
  /\ \E content \in Contents :
       /\ llm' = [llm EXCEPT !.events = @ + 1, !.collected = @ \o content]
       /\ IF content # <<>> /\ llm.mode = "stream"
          THEN on_token(content)
          ELSE UNCHANGED <<streamed_tokens, out>>
  /\ UNCHANGED <<finFixed, finSession, finRouter, finLocals>>
  /\ UNCHANGED <<fpc, window, output_lock, raised, can_stream,
                 final_text, text_arg, client_calls>>

\* the stream ends ([DONE], the end of the body, or for openrouter an error
\* payload): return "".join(collected)
Backend_StreamEnds ==
  /\ fpc = "backend"
  /\ Streams(llm)
  /\ backend_returned(llm.collected)
  /\ UNCHANGED <<finFixed, finSession, finLocals>>
  /\ UNCHANGED <<window, output_lock, out, raised, can_stream, streamed_tokens,
                 final_text, text_arg, client_calls>>

\* the backend call raises, or answers with an error status: the except
\* clause returns ""
Backend_Raises ==
  /\ fpc = "backend"
  /\ backend_returned(<<>>)
  /\ UNCHANGED <<finFixed, finSession, finLocals>>
  /\ UNCHANGED <<window, output_lock, out, raised, can_stream, streamed_tokens,
                 final_text, text_arg, client_calls>>

\* _call_gemini_direct lines 330-338, _call_groq lines 285-296: a reply that
\* is not streamed; gemini hands the whole text to on_delta
Backend_Reply ==
  /\ fpc = "backend"
  /\ ~Streams(llm)
  /\ \E text \in Replies :
       /\ backend_returned(text)
       /\ IF text # <<>> /\ llm.mode = "stream"
          THEN on_token(text)
          ELSE UNCHANGED <<streamed_tokens, out>>
  /\ UNCHANGED <<finFixed, finSession, finLocals>>
  /\ UNCHANGED <<window, output_lock, raised, can_stream,
                 final_text, text_arg, client_calls>>

\* the correction client has returned: lines 338-340 on the streaming path,
\* lines 353-356 on the clipboard path, line 283 in text editing
Fin_ClientReturned ==
  /\ fpc = "client_returned"
  /\ IF llm.mode = "stream"
     THEN /\ final_text' = join(<<>>, streamed_tokens)
          /\ fpc' = "finally"
          /\ UNCHANGED <<out, text_arg>>
     ELSE IF llm.mode = "plain"
     THEN /\ final_text' = llm.result
          /\ out' = out \o << [op |-> "copy_to_clipboard", text |-> llm.result],
                              [op |-> "notify", text |-> <<>>] >>
          /\ fpc' = "finally"
          /\ UNCHANGED text_arg
     ELSE /\ text_arg' = llm.result
          /\ fpc' = "output"
          /\ UNCHANGED <<out, final_text>>
  /\ UNCHANGED <<finFixed, finSession, finRouter, finLocals>>
  /\ UNCHANGED <<window, output_lock, raised, can_stream, streamed_tokens,
                 llm, client_calls>>

\* _output lines 415-425: nothing for an empty text; else take the mutex
Output_Enter ==
  /\ fpc = "output"
  /\ IF text_arg = <<>>
     THEN fpc' = on_return /\ UNCHANGED <<final_text, output_lock>>
     ELSE /\ final_text' = text_arg
          /\ output_lock = "free"
          /\ output_lock' = "fin"
          /\ fpc' = "output_locked"
  /\ UNCHANGED <<finFixed, finSession, finRouter, finLocals>>
  /\ UNCHANGED <<window, out, raised, can_stream, streamed_tokens,
                 text_arg, llm, client_calls>>

\* _output lines 426-441: query the app context again and deliver
Output_Deliver ==
  /\ fpc = "output_locked"
  /\ out' = IF window_changed(context, window)
            THEN out \o << [op |-> "copy_to_clipboard", text |-> text_arg],
                           [op |-> "notify", text |-> <<>>] >>
            ELSE Append(out, [op |-> "type", text |-> text_arg])
  /\ output_lock' = "free"
  /\ \E primitive_raises \in BOOLEAN :
       raised' = primitive_raises
  /\ fpc' = "finally"
  /\ text_arg' = <<>>
  /\ UNCHANGED <<finFixed, finSession, finRouter, finLocals>>
  /\ UNCHANGED <<window, can_stream, streamed_tokens, final_text, llm, client_calls>>

\* finally clause, lines 382-383
Fin_Finally ==
  /\ fpc = "finally"
  /\ is_active' = [is_active EXCEPT ![1] = FALSE]
  /\ executor_shutdown' = [executor_shutdown EXCEPT ![1] = TRUE]
  /\ life' = [life EXCEPT ![1] = "fin_callback"]
  /\ fpc' = "on_complete"
  /\ UNCHANGED <<active_session, completions>>
  /\ UNCHANGED <<finFixed, finRouter, finLocals>>
  /\ UNCHANGED <<window, output_lock, out, raised, can_stream, streamed_tokens,
                 final_text, text_arg, llm, client_calls>>

\* finally clause, line 384: self.on_complete(self)
Fin_OnComplete ==
  /\ fpc = "on_complete"
  /\ active_session' = on_session_complete(1)
  /\ completions' = [completions EXCEPT ![1] = @ + 1]
  /\ life' = [life EXCEPT ![1] = "complete"]
  /\ fpc' = "done"
  /\ UNCHANGED <<is_active, executor_shutdown>>
  /\ UNCHANGED <<finFixed, finRouter, finLocals>>
  /\ UNCHANGED <<window, output_lock, out, raised, can_stream, streamed_tokens,
                 final_text, text_arg, llm, client_calls>>

\* the steps of the finalization thread
FinThread ==
  \/ Fin_Transcribe
  \/ Fin_Aggregate
  \/ Fin_CheckStream
  \/ Fin_EditCall
  \/ Fin_CorrectCall
  \/ Backend_Content
  \/ Backend_StreamEnds
  \/ Backend_Raises
  \/ Backend_Reply
  \/ Fin_ClientReturned
  \/ Output_Enter
  \/ Output_Deliver
  \/ Fin_Finally
  \/ Fin_OnComplete

FinNext ==
  \/ WindowChange
  \/ Fin_Transcribe
  \/ Fin_Aggregate
  \/ Fin_CheckStream
  \/ Fin_EditCall
  \/ Fin_CorrectCall
  \/ Backend_Content
  \/ Backend_StreamEnds
  \/ Backend_Raises
  \/ Backend_Reply
  \/ Fin_ClientReturned
  \/ Output_Enter
  \/ Output_Deliver
  \/ Fin_Finally
  \/ Fin_OnComplete

SpecFin == FinInit /\ [][FinNext]_vars

\* ------------------------------------------------------------------------
\* SpecJob: the chunk job in detail.  Session 1 is finalizing; its recording
\* emitted no chunk, and _finalize_impl transcribes the final chunk itself
\* (line 250): one provider call per (device, provider) pair, the results
\* taken as the calls complete.  When the job has recorded its outcome the
\* finalization goes on as in SpecFin.
\* ------------------------------------------------------------------------
\* the four results of scenario S1, a word for a letter: "Hello, world.",
\* "hello world", "Hello world", "Hello world!"
S1_pa_d1 == <<"A", ",", " ", "a", ".">>
S1_pb_d1 == <<"a", " ", "a">>
S1_pa_d2 == <<"A", " ", "a">>
S1_pb_d2 == <<"A", " ", "a", "!">>

\* a provider call that returns a result with this text
Returns(t) == [text |-> t, raises |-> FALSE]
\* a provider call that raises
Raises == [text |-> <<>>, raises |-> TRUE]

S1_calls == <<Returns(S1_pa_d1), Returns(S1_pb_d1), Returns(S1_pa_d2), Returns(S1_pb_d2)>>

\* the provider calls of the chunk
JobCalls ==
  { <<>>,
    S1_calls,
    <<Returns(<<"a">>), Returns(<<"a", " ", "a">>), Returns(<<"A", " ", "a", ".">>)>>,
    <<Returns(<<"u", "m">>), Returns(<<"u", "m">>), Returns(<<"a">>)>>,
    <<Returns(<<"a">>), Raises, Returns(<<>>)>>,
    \* "i mean it" and "i means" twice
    <<Returns(<<"i", " ", "m", "e", "a", "n", " ", "i", "t">>),
      Returns(<<"i", " ", "m", "e", "a", "n", "s">>),
      Returns(<<"i", " ", "m", "e", "a", "n", "s">>)>> }

\* consensus_threshold and consensus_max_words of the snapshot
Snapshots ==
  {[consensus_threshold |-> k, consensus_max_words |-> w] : k \in {1, 2, 3}, w \in {1, 2}}

JobInit ==
  /\ state = "idle"
  /\ trigger_key_pressed = FALSE
  /\ last_press_time = 1
  /\ toggle_timer = "none"
  /\ in_lock = "free"
  /\ pc = [t \in Threads |-> "idle"]
  /\ handler = [t \in Threads |-> "none"]
  /\ current_session = NoSession
  /\ new_session = NoSession
  /\ final_chunk = NoChunk
  /\ is_recording = FALSE
  /\ on_chunk_ready = NoSession
  /\ preroll = 0
  /\ current_chunk = 0
  /\ silence_duration = 0
  /\ rec_blocks = 0
  /\ dev = [pc |-> "idle", sink |-> NoSession, chunk |-> NoChunk, raised |-> FALSE]
  /\ flushed = 0
  /\ active_session = 1
  /\ busy_cue = FALSE
  /\ life = [s \in Sessions |-> IF s = 1 THEN "fin_transcribe" ELSE "none"]
  /\ is_active = [s \in Sessions |-> s = 1]
  /\ chunk_results = [s \in Sessions |-> <<>>]
  /\ pending_futures = [s \in Sessions |-> <<>>]
  /\ finished = [s \in Sessions |-> {}]
  /\ all_audio = [s \in Sessions |-> <<>>]
  /\ executor_shutdown = [s \in Sessions |-> FALSE]
  /\ futures_to_wait = [s \in Sessions |-> <<>>]
  /\ fin_chunk = [s \in Sessions |-> NoChunk]
  /\ stop_returned = {1}
  /\ completions = [s \in Sessions |-> 0]
  /\ wait_expired = [s \in Sessions |-> {}]
  /\ fpc = "job"
  /\ selected_text \in {<<>>, <<"s">>}
  /\ context = "com.foo"
  /\ window = "com.foo"
  /\ api_keys \in {{}, Providers}
  /\ provider_failures = [p \in Providers |-> 0]
  /\ backoff = {}
  /\ output_lock = "free"
  /\ out = <<>>
  /\ raised = FALSE
  /\ chunk_texts = <<>>
  /\ all_results = <<>>
  /\ combined_text = <<>>
  /\ can_stream = FALSE
  /\ streamed_tokens = <<>>
  /\ final_text = <<>>
  /\ text_arg = <<>>
  /\ llm = NoCall
  /\ client_calls = 0
  /\ jpc = "waiting"
  /\ snapshot \in Snapshots
  /\ job_calls \in JobCalls
  /\ job_pending = 1..Len(job_calls)
  /\ job_results = <<>>
  /\ job_consensus = <<>>
  /\ job_timed_out = FALSE
  /\ RouterIdle
  /\ RingIdle
  /\ KeyIdle
  /\ ChunkIdle /\ LockIdle

\* what the job never writes
jobFixed == <<ctlVars, mainVars, engVars, busy_cue, pending_futures, finished,
              all_audio, futures_to_wait, fin_chunk, stop_returned, selected_text,
              context, api_keys, finSession, finRouter, finLocals, window,
              output_lock, out, can_stream, streamed_tokens, final_text, text_arg,
              llm, client_calls, snapshot, job_calls, routerVars, ringVars, keyVars, chunkVars, lockVars,
              wait_expired>>

\* lines 146-186: the next future of as_completed.  A call that raises is
\* logged; a result is appended and, once consensus_threshold results are
\* there, checked for consensus, which cancels the calls still pending.
Job_Completes ==
  /\ jpc = "waiting"
  /\ \E i \in job_pending :
       IF job_calls[i].raises
       THEN /\ job_pending' = job_pending \ {i}
            /\ UNCHANGED <<job_results, job_consensus>>
       ELSE LET rs == Append(job_results, job_calls[i].text)
                consensus == IF Len(rs) >= snapshot.consensus_threshold
                             THEN check_consensus(rs, snapshot) ELSE <<>>
            IN /\ job_results' = rs
               /\ job_consensus' = consensus
               /\ job_pending' = IF consensus # <<>> THEN {} ELSE job_pending \ {i}
  /\ UNCHANGED <<jobFixed, chunk_results, fpc, raised, jpc, job_timed_out>>

\* lines 146 and 190-194: as_completed raises its timeout while calls are
\* pending.  `except TimeoutError` names the builtin, which is the raised
\* class from Python 3.11 on: there the calls are cancelled and the loop is
\* left; before, the exception leaves the job and reaches line 358.
Job_Timeout ==
  /\ jpc = "waiting"
  /\ job_pending # {}
  /\ job_pending' = {}
  /\ job_timed_out' = TRUE
  /\ \E timeout_escapes \in BOOLEAN :
       IF timeout_escapes
       THEN jpc' = "done" /\ raised' = TRUE /\ fpc' = "finally"
       ELSE UNCHANGED <<jpc, raised, fpc>>
  /\ UNCHANGED <<jobFixed, chunk_results, job_results, job_consensus>>

\* lines 196-208 and 253-262: the loop has ended; the outcome is recorded,
\* and the finalization, which has no pending futures to wait for, goes on
Job_Record ==
  /\ jpc = "waiting"
  /\ job_pending = {}
  /\ chunk_results' = IF job_calls = <<>>
                      THEN chunk_results   \* line 136: `if not futures: return`
                      ELSE [chunk_results EXCEPT ![1] =
                             Append(@, [results |-> job_results, consensus |-> job_consensus])]
  /\ jpc' = "done"
  /\ fpc' = "aggregate"
  /\ UNCHANGED <<jobFixed, raised, job_pending, job_results, job_consensus,
                 job_timed_out>>

JobNext ==
  \/ Job_Completes
  \/ Job_Timeout
  \/ Job_Record
  \/ WindowChange
  \/ Fin_Aggregate
  \/ Fin_CheckStream
  \/ Fin_EditCall
  \/ Fin_CorrectCall
  \/ Backend_Content
  \/ Backend_StreamEnds
  \/ Backend_Raises
  \/ Backend_Reply
  \/ Fin_ClientReturned
  \/ Output_Enter
  \/ Output_Deliver
  \/ Fin_Finally
  \/ Fin_OnComplete

SpecJob == JobInit /\ [][JobNext]_vars

\* ------------------------------------------------------------------------
\* SpecRouter: the router with its clock.  No session exists; routers are
\* built from configurations with any of the API keys, all of them on the
\* one table of the module, and are asked to select, to fall back and to
\* record outcomes while time passes.  Each call runs under _ROUTER_LOCK
\* and is one step.
\* ------------------------------------------------------------------------
MaxNow == 9
MaxFailures == 9

\* the configurations routers are built from, by the API keys they hold
RouterKeys == {{}, {"groq"}, {"groq", "gemini"}, Providers}

\* the providers whose outcomes are recorded: the fastest and the preferred
Recorded == {"groq", "gemini"}

RECURSIVE Sum(_, _)
Sum(f, S) == IF S = {} THEN 0
             ELSE LET x == CHOOSE x \in S : TRUE IN f[x] + Sum(f, S \ {x})

\* the word counts select_provider is called with
WordCounts == {0, SHORT_INPUT_WORD_THRESHOLD - 1, SHORT_INPUT_WORD_THRESHOLD,
               SHORT_INPUT_WORD_THRESHOLD + 1}

RouterInit ==
  /\ SysIdle
  /\ fpc = "idle"
  /\ selected_text = <<>>
  /\ context = "none"
  /\ window = ""
  /\ api_keys \in RouterKeys
  /\ provider_failures = [p \in Providers |-> 0]
  /\ backoff = {}
  /\ output_lock = "free"
  /\ out = <<>>
  /\ raised = FALSE
  /\ chunk_texts = <<>>
  /\ all_results = <<>>
  /\ combined_text = <<>>
  /\ can_stream = FALSE
  /\ streamed_tokens = <<>>
  /\ final_text = <<>>
  /\ text_arg = <<>>
  /\ llm = NoCall
  /\ client_calls = 0
  /\ JobIdle
  /\ RouterIdle
  /\ RingIdle
  /\ KeyIdle
  /\ ChunkIdle /\ LockIdle

\* what the router never writes
routerFixed == <<sysVars, fpc, selected_text, context, window, output_lock, out,
                 raised, chunk_texts, all_results, combined_text, can_stream,
                 streamed_tokens, final_text, text_arg, llm, client_calls, jobVars,
                 ringVars, keyVars, chunkVars, lockVars,
                 wait_expired>>

\* a second passes
Router_Tick ==
  /\ now < MaxNow
  /\ now' = now + 1
  /\ backoff' = backoffs_at(now', backoff_until)
  /\ router_call' = NoRouterCall
  /\ UNCHANGED <<routerFixed, api_keys, provider_failures, backoff_until>>

\* CorrectionRouter(config), lines 68-72: the next calls go through a router
\* built from another configuration
Router_New ==
  \E keys \in RouterKeys :
    /\ keys # api_keys
    /\ api_keys' = keys
    /\ router_call' = NoRouterCall
    /\ UNCHANGED <<routerFixed, provider_failures, backoff, now, backoff_until>>

\* select_provider(word_count), lines 97-106
Router_Select ==
  \E word_count \in WordCounts :
    /\ router_call' = [op |-> "select_provider", arg |-> word_count,
                       result |-> select_provider(word_count)]
    /\ UNCHANGED <<routerFixed, api_keys, provider_failures, backoff, now,
                   backoff_until>>

\* get_fallback(exclude), lines 110-113
Router_Fallback ==
  \E exclude \in Providers :
    /\ router_call' = [op |-> "get_fallback", arg |-> exclude,
                       result |-> get_fallback(exclude, backoffs_at(now, backoff_until))]
    /\ UNCHANGED <<routerFixed, api_keys, provider_failures, backoff, now,
                   backoff_until>>

\* record_failure(provider_name), lines 117-125
Router_RecordFailure ==
  \E p \in Recorded :
    /\ Sum(provider_failures, Providers) < MaxFailures
    /\ provider_failures' = failures_after_failure(provider_failures, p)
    /\ backoff_until' = until_after_failure(provider_failures, backoff_until, p, now)
    /\ backoff' = backoffs_at(now, backoff_until')
    /\ router_call' = [op |-> "record_failure", arg |-> p, result |-> "none"]
    /\ UNCHANGED <<routerFixed, api_keys, now>>

\* record_success(provider_name), lines 129-131
Router_RecordSuccess ==
  \E p \in Recorded :
    /\ provider_failures' = failures_after_success(provider_failures, p)
    /\ backoff_until' = until_after_success(backoff_until, p)
    /\ backoff' = backoffs_at(now, backoff_until')
    /\ router_call' = [op |-> "record_success", arg |-> p, result |-> "none"]
    /\ UNCHANGED <<routerFixed, api_keys, now>>

RouterNext ==
  \/ Router_Tick
  \/ Router_New
  \/ Router_Select
  \/ Router_Fallback
  \/ Router_RecordFailure
  \/ Router_RecordSuccess

SpecRouter == RouterInit /\ [][RouterNext]_vars

\* ------------------------------------------------------------------------
\* SpecRing: the audio engine with the blocks of its device told apart.  The
\* device delivers blocks 1, 2, ...; recordings are started and stopped in
\* turn and the engine is shut down at the end.  The sink of an emitted
\* chunk returns at once.
\* ------------------------------------------------------------------------
MaxBlocks == 6
MaxRecordings == 2

\* deque(maxlen=preroll_chunks).append without the bound
ring_append_unbounded(r, b) == Append(r, b)
\* deque(maxlen=preroll_chunks).append: a full ring drops its oldest block
ring_append(r, b) ==
  IF preroll_chunks = 0 THEN <<>>
  ELSE IF Len(r) >= preroll_chunks THEN Append(Tail(r), b)
  ELSE Append(r, b)

RECURSIVE Samples(_)
\* sum(len(b) for b in buffers)
Samples(buffers) ==
  IF buffers = <<>> THEN 0 ELSE Head(buffers).n + Samples(Tail(buffers))

RECURSIVE trim_buffers(_, _)
\* _trim_trailing_samples on the buffers of the device: whole buffers are
\* popped from the end, the last one left is cut
trim_buffers(buffers, remaining_to_trim) ==
  IF remaining_to_trim <= 0 \/ buffers = <<>> THEN buffers
  ELSE LET last_buffer == buffers[Len(buffers)]
       IN IF last_buffer.n <= remaining_to_trim
          THEN trim_buffers(SubSeq(buffers, 1, Len(buffers) - 1),
                            remaining_to_trim - last_buffer.n)
          ELSE [buffers EXCEPT ![Len(buffers)].n = last_buffer.n - remaining_to_trim]

RingInit ==
  /\ SysIdle
  /\ FinIdle
  /\ JobIdle
  /\ RouterIdle
  /\ RingIdle
  /\ KeyIdle
  /\ ChunkIdle /\ LockIdle

\* what the engine alone never writes
ringFixed == <<ctlVars, mainVars, mgrVars, sessVars, histVars, on_chunk_ready, dev,
               fpc, selected_text, context, window, api_keys, provider_failures,
               backoff, output_lock, out, raised, chunk_texts, all_results,
               combined_text, can_stream, streamed_tokens, final_text, text_arg,
               llm, client_calls, jobVars, routerVars, keyVars, chunkVars, lockVars,
               wait_expired>>

\* start_recording(), lines 134-142
Ring_Start ==
  /\ ~shut
  /\ ~is_recording
  /\ Len(recordings) < MaxRecordings
  /\ is_recording' = TRUE
  /\ silence_duration' = 0
  /\ builder' = [i \in 1..Len(ring) |-> [b |-> ring[i], n |-> DEFAULT_BLOCKSIZE]]
  /\ current_chunk' = Samples(builder')
  /\ rec_blocks' = 0
  /\ flushed' = 0
  /\ recordings' = Append(recordings, [seed |-> ring, at |-> block_no, chunks |-> <<>>])
  /\ UNCHANGED <<ring, preroll, block_no, shut, silent_blocks, ringFixed>>

\* stop_recording(), lines 153-157
Ring_Stop ==
  /\ ~shut
  /\ is_recording
  /\ is_recording' = FALSE
  /\ silence_duration' = 0
  /\ builder' = <<>>
  /\ current_chunk' = 0
  /\ rec_blocks' = 0
  /\ flushed' = 0
  /\ recordings' = [recordings EXCEPT ![Len(recordings)].chunks = Append(@, builder)]
  /\ UNCHANGED <<ring, preroll, block_no, shut, silent_blocks, ringFixed>>

\* shutdown(), lines 163-168
Ring_Shutdown ==
  /\ ~shut
  /\ shut' = TRUE
  /\ is_recording' = FALSE
  /\ ring' = <<>>
  /\ preroll' = 0
  /\ builder' = <<>>
  /\ current_chunk' = 0
  /\ UNCHANGED <<silence_duration, rec_blocks, flushed, block_no, recordings,
                 silent_blocks, ringFixed>>

\* _audio_callback, lines 200-247, for the next block of the device
Ring_Block ==
  \E silent \in BOOLEAN :
    /\ block_no < MaxBlocks
    /\ block_no' = block_no + 1
    /\ IF shut
       THEN \* line 203: the buffers are gone
            UNCHANGED <<ring, preroll, builder, current_chunk, silence_duration,
                        rec_blocks, flushed, recordings, silent_blocks>>
       ELSE IF ~is_recording
       THEN /\ ring' = ring_append(ring, block_no')
            /\ preroll' = Len(ring')
            /\ UNCHANGED <<builder, current_chunk, silence_duration, rec_blocks,
                           flushed, recordings, silent_blocks>>
       ELSE LET grown == Append(builder, [b |-> block_no', n |-> DEFAULT_BLOCKSIZE])
                sd == silence_duration + DEFAULT_BLOCKSIZE
                emits == /\ silent
                         /\ sd >= silence_threshold_samples
                         /\ Samples(grown) >= min_chunk_samples
                chunk == trim_buffers(grown, sd - trailing_silence_samples)
            IN /\ recordings' = IF emits
                                THEN [recordings EXCEPT ![Len(recordings)].chunks =
                                                          Append(@, chunk)]
                                ELSE recordings
               /\ rec_blocks' = rec_blocks + 1
               /\ builder' = IF emits THEN <<>> ELSE grown
               /\ current_chunk' = Samples(builder')
               /\ flushed' = IF emits THEN flushed + 1 ELSE flushed
               /\ silence_duration' = IF silent /\ sd < silence_threshold_samples
                                      THEN sd ELSE 0
               /\ silent_blocks' = IF silent THEN silent_blocks \cup {block_no'}
                                   ELSE silent_blocks
               /\ UNCHANGED <<ring, preroll>>
    /\ UNCHANGED <<is_recording, shut, ringFixed>>

RingNext ==
  \/ Ring_Start
  \/ Ring_Stop
  \/ Ring_Shutdown
  \/ Ring_Block

SpecRing == RingInit /\ [][RingNext]_vars

\* ------------------------------------------------------------------------
\* SpecCtl: the input controller with its key events told apart.  The
\* listener thread delivers presses and releases of the trigger key (a held
\* key repeats its press), of shift and of escape; the safety timer runs on
\* its own thread.  Every handler runs under _lock and is one step; the
\* intents are the calls of on_start_recording, on_stop_recording and
\* on_emergency_reset, which return at once.  The clock counts units of
\* double_tap_threshold and has passed one unit when the controller is built.
\* ------------------------------------------------------------------------
CtlInit ==
  /\ SysIdle
  /\ FinIdle
  /\ JobIdle
  /\ now = config.double_tap_threshold
  /\ backoff_until = [p \in Providers |-> 0]
  /\ router_call = NoRouterCall
  /\ RingIdle
  /\ key_down = FALSE
  /\ shift_pressed = FALSE
  /\ on_emergency_reset \in {"none", "hook"}
  /\ ctl_event = NoEvent
  /\ ChunkIdle /\ LockIdle

\* what the controller alone never writes
ctlFixed == <<in_lock, handler, mainVars, engVars, mgrVars, sessVars, histVars,
              fpc, selected_text, context, window, api_keys, provider_failures,
              backoff, output_lock, out, raised, chunk_texts, all_results,
              combined_text, can_stream, streamed_tokens, final_text, text_arg,
              llm, client_calls, jobVars, backoff_until, router_call, ringVars,
              on_emergency_reset, chunkVars, lockVars,
              wait_expired>>

\* line 85 with the bound included
is_double_tap_inclusive(gap) == gap <= config.double_tap_threshold

\* line 85: now - self.last_press_time < self.config.double_tap_threshold
is_double_tap(gap) == gap < config.double_tap_threshold

\* line 116 with every recording state
release_stops_any(st) == st # "idle"

\* line 116: self.state == "recording"
release_stops(st) == st = "recording"

\* the event a handler has found
Found(key) == [key |-> key, state |-> state, pressed |-> trigger_key_pressed,
               gap |-> now - last_press_time, fired |-> <<>>]

\* time passes
Ctl_Tick ==
  /\ now < MaxNow
  /\ now' = now + 1
  /\ ctl_event' = NoEvent
  /\ UNCHANGED <<state, trigger_key_pressed, last_press_time, toggle_timer, pc,
                 key_down, shift_pressed, ctlFixed>>

\* on_key_press / on_key_release of a shift key, lines 63-65 and 105-107
Ctl_Shift ==
  /\ shift_pressed' = ~shift_pressed
  /\ ctl_event' = Found(IF shift_pressed THEN "shift_release" ELSE "shift_press")
  /\ UNCHANGED <<state, trigger_key_pressed, last_press_time, toggle_timer, pc,
                 now, key_down, ctlFixed>>

\* on_key_press(esc), lines 68-75: _emergency_reset with shift held,
\* otherwise not the trigger key
Ctl_Esc ==
  IF shift_pressed
  THEN /\ state' = "idle"
       /\ trigger_key_pressed' = FALSE
       /\ cancel_toggle_timer
       /\ ctl_event' = [Found("shift_esc") EXCEPT
                          !.fired = IF on_emergency_reset # "none"
                                    THEN <<"emergency_reset">> ELSE <<"stop">>]
       /\ UNCHANGED <<last_press_time, pc, now, key_down, shift_pressed, ctlFixed>>
  ELSE /\ ctl_event' = Found("esc")
       /\ UNCHANGED <<state, trigger_key_pressed, last_press_time, toggle_timer,
                      pc, now, key_down, shift_pressed, ctlFixed>>

\* on_key_press(trigger), lines 77-93, with _start_recording,
\* _stop_recording and _enter_toggle_mode
Ctl_TriggerPress ==
  /\ key_down' = TRUE
  /\ IF trigger_key_pressed
     THEN /\ ctl_event' = Found("trigger_press")
          /\ UNCHANGED <<state, trigger_key_pressed, last_press_time, toggle_timer>>
     ELSE /\ trigger_key_pressed' = TRUE
          /\ last_press_time' = now
          /\ IF is_double_tap(now - last_press_time)
             THEN IF state = "idle"
                  THEN /\ state' = "toggle_recording"
                       /\ toggle_timer' = "armed"
                       /\ ctl_event' = [Found("trigger_press") EXCEPT !.fired = <<"start">>]
                  ELSE /\ ctl_event' = Found("trigger_press")
                       /\ UNCHANGED <<state, toggle_timer>>
             ELSE IF state = "idle"
             THEN /\ state' = "recording"
                  /\ ctl_event' = [Found("trigger_press") EXCEPT !.fired = <<"start">>]
                  /\ UNCHANGED toggle_timer
             ELSE IF state = "toggle_recording"
             THEN /\ state' = "idle"
                  /\ cancel_toggle_timer
                  /\ ctl_event' = [Found("trigger_press") EXCEPT !.fired = <<"stop">>]
             ELSE /\ ctl_event' = Found("trigger_press")
                  /\ UNCHANGED <<state, toggle_timer>>
  /\ UNCHANGED <<pc, now, shift_pressed, ctlFixed>>

\* on_key_release(trigger), lines 113-119
Ctl_TriggerRelease ==
  /\ key_down
  /\ key_down' = FALSE
  /\ trigger_key_pressed' = FALSE
  /\ IF release_stops(state)
     THEN /\ state' = "idle"
          /\ cancel_toggle_timer
          /\ ctl_event' = [Found("trigger_release") EXCEPT !.fired = <<"stop">>]
     ELSE /\ ctl_event' = Found("trigger_release")
          /\ UNCHANGED <<state, toggle_timer>>
  /\ UNCHANGED <<last_press_time, pc, now, shift_pressed, ctlFixed>>

\* the safety timer expires, toggle_mode_timeout (far more than the
\* double-tap threshold) after the press that armed it: its thread starts
\* _toggle_timeout
Ctl_TimerFires ==
  /\ toggle_timer = "armed"
  /\ pc["timer"] = "idle"
  /\ now > last_press_time
  /\ toggle_timer' = "none"
  /\ pc' = [pc EXCEPT !["timer"] = "blocked"]
  /\ ctl_event' = NoEvent
  /\ UNCHANGED <<state, trigger_key_pressed, last_press_time, now, key_down,
                 shift_pressed, ctlFixed>>

\* _toggle_timeout, lines 168-173
Ctl_ToggleTimeout ==
  /\ pc["timer"] = "blocked"
  /\ pc' = [pc EXCEPT !["timer"] = "idle"]
  /\ IF state = "toggle_recording"
     THEN /\ state' = "idle"
          /\ cancel_toggle_timer
          /\ ctl_event' = [Found("timeout") EXCEPT !.fired = <<"stop">>]
     ELSE /\ ctl_event' = Found("timeout")
          /\ UNCHANGED <<state, toggle_timer>>
  /\ UNCHANGED <<trigger_key_pressed, last_press_time, now, key_down,
                 shift_pressed, ctlFixed>>

CtlNext ==
  \/ Ctl_Tick
  \/ Ctl_Shift
  \/ Ctl_Esc
  \/ Ctl_TriggerPress
  \/ Ctl_TriggerRelease
  \/ Ctl_TimerFires
  \/ Ctl_ToggleTimeout

SpecCtl == CtlInit /\ [][CtlNext]_vars

\* ------------------------------------------------------------------------
\* SpecChunk: the provider calls of one chunk.  Session 1 is recording on
\* two devices; the device thread hands it a chunk, the executor runs the
\* chunk job, and the job submits its provider calls one by one.  The
\* session may be stopped meanwhile: its finalization, which did not find
\* the job among the futures to wait for or has given up waiting, shuts the
\* executor down in its finally clause (line 383).
\* ------------------------------------------------------------------------
\* the devices of the engine, in the order of the chunk's items
Mics == <<"mic1", "mic2">>

\* the enabled and configured providers _init_providers goes through, in
\* their order
Registries ==
  {<<>>, <<"parakeet">>, <<"parakeet", "groq">>, <<"groq", "gemini", "parakeet">>}

\* Provider.initialize (parakeet.py 35-55, groq.py 39-49, gemini.py 48-55):
\* a failure is caught and printed, or returned from; the call does not raise
initialize_raises(name, failed) == FALSE

\* ProviderRegistry.register: initialize() and, when it returned, the entry
register(providers, name, failed) ==
  IF initialize_raises(name, failed) THEN providers ELSE Append(providers, name)

\* _init_providers: the registry after the loop over the enabled and
\* configured providers, of which those in failed fail to initialize
RECURSIVE init_providers(_, _, _)
init_providers(providers, enabled, failed) ==
  IF enabled = <<>> THEN providers
  ELSE init_providers(register(providers, Head(enabled), failed), Tail(enabled), failed)

\* the chunks: samples of each device, 0 for an empty array
Chunks == [{Mics[i] : i \in 1..Len(Mics)} -> {0, 1}]

\* lines 131-135 for one device
fanout_of_mic(mic_name, providers) ==
  [j \in 1..Len(providers) |-> <<mic_name, providers[j]>>]

\* lines 127-135: the calls the loops submit, in order
RECURSIVE fanout(_, _, _)
fanout(mics, chunk, providers) ==
  IF mics = <<>> THEN <<>>
  ELSE (IF chunk[Head(mics)] = 0 THEN <<>> ELSE fanout_of_mic(Head(mics), providers))
         \o fanout(Tail(mics), chunk, providers)

ChunkInit ==
  /\ state = "recording"
  /\ trigger_key_pressed = TRUE
  /\ last_press_time = 1
  /\ toggle_timer = "none"
  /\ in_lock = "free"
  /\ pc = [t \in Threads |-> "idle"]
  /\ handler = [t \in Threads |-> "none"]
  /\ current_session = 1
  /\ new_session = 1
  /\ final_chunk = NoChunk
  /\ is_recording = TRUE
  /\ on_chunk_ready = 1
  /\ preroll = 0
  /\ current_chunk = 0
  /\ silence_duration = 0
  /\ rec_blocks = 0
  /\ dev = [pc |-> "callback", sink |-> 1, chunk |-> NoChunk, raised |-> FALSE]
  /\ flushed = 0
  /\ active_session = 1
  /\ busy_cue = FALSE
  /\ life = [s \in Sessions |-> IF s = 1 THEN "active" ELSE "none"]
  /\ is_active = [s \in Sessions |-> s = 1]
  /\ chunk_results = [s \in Sessions |-> <<>>]
  /\ pending_futures = [s \in Sessions |-> <<>>]
  /\ finished = [s \in Sessions |-> {}]
  /\ all_audio = [s \in Sessions |-> <<>>]
  /\ executor_shutdown = [s \in Sessions |-> FALSE]
  /\ futures_to_wait = [s \in Sessions |-> <<>>]
  /\ fin_chunk = [s \in Sessions |-> NoChunk]
  /\ stop_returned = {}
  /\ completions = [s \in Sessions |-> 0]
  /\ wait_expired = [s \in Sessions |-> {}]
  /\ FinIdle
  /\ JobIdle
  /\ RouterIdle
  /\ RingIdle
  /\ KeyIdle
  /\ LockIdle
  /\ job_chunk \in Chunks
  /\ \E enabled \in Registries :
       /\ init_failed \in SUBSET {enabled[i] : i \in 1..Len(enabled)}
       /\ registry = init_providers(<<>>, enabled, init_failed)
  /\ job_futures = <<>>

\* what the chunk job never writes
chunkFixed == <<ctlVars, mainVars, engVars, mgrVars, histVars,
                finished, futures_to_wait, fin_chunk, fpc, selected_text, context,
                window, api_keys, provider_failures, backoff, output_lock, out,
                raised, chunk_texts, all_results, combined_text, can_stream,
                streamed_tokens, final_text, text_arg, llm, client_calls,
                snapshot, job_calls, job_pending, job_results, job_consensus,
                job_timed_out, routerVars, ringVars, keyVars, job_chunk, registry,
                init_failed, lockVars, wait_expired>>

\* on_chunk_ready, lines 84-115
Chunk_OnChunkReady ==
  /\ jpc = "idle"
  /\ IF \A m \in DOMAIN job_chunk : job_chunk[m] = 0
     THEN jpc' = "ignored" /\ UNCHANGED <<all_audio, pending_futures>>
     ELSE /\ all_audio' = [all_audio EXCEPT ![1] = Append(@, job_chunk)]
          /\ IF executor_shutdown[1]
             THEN jpc' = "rejected" /\ UNCHANGED pending_futures
             ELSE /\ jpc' = "queued"
                  /\ pending_futures' = [pending_futures EXCEPT ![1] = Append(@, job_chunk)]
  /\ UNCHANGED <<chunkFixed, life, is_active, chunk_results, executor_shutdown, job_futures>>

\* a worker of the executor takes the job: line 125
Chunk_JobStarts ==
  /\ jpc = "queued"
  /\ jpc' = "fanout"
  /\ UNCHANGED <<chunkFixed, life, is_active, chunk_results, executor_shutdown, job_futures,
                 all_audio, pending_futures>>

\* lines 127-135: the next self._executor.submit(provider.transcribe, ...),
\* which raises RuntimeError once the executor has been shut down
Chunk_Submit ==
  /\ jpc = "fanout"
  /\ Len(job_futures) < Len(fanout(Mics, job_chunk, registry))
  /\ IF executor_shutdown[1]
     THEN jpc' = "raised" /\ UNCHANGED job_futures
     ELSE /\ job_futures' = Append(job_futures,
                                   fanout(Mics, job_chunk, registry)[Len(job_futures) + 1])
          /\ UNCHANGED jpc
  /\ UNCHANGED <<chunkFixed, life, is_active, chunk_results, executor_shutdown, all_audio,
                 pending_futures>>

\* lines 137-138: the loops have ended; `if not futures: return`
Chunk_Submitted ==
  /\ jpc = "fanout"
  /\ Len(job_futures) = Len(fanout(Mics, job_chunk, registry))
  /\ jpc' = IF job_futures = <<>> THEN "returned" ELSE "waiting"
  /\ UNCHANGED <<chunkFixed, life, is_active, chunk_results, executor_shutdown, job_futures,
                 all_audio, pending_futures>>

\* lines 140-208: the calls are waited for and the outcome is recorded
\* (SpecJob has the details); here the results are named by their calls
Chunk_Record ==
  /\ jpc = "waiting"
  /\ chunk_results' = [chunk_results EXCEPT ![1] =
                         Append(@, [results |-> job_futures, consensus |-> <<>>])]
  /\ jpc' = "recorded"
  /\ UNCHANGED <<chunkFixed, life, is_active, executor_shutdown, job_futures, all_audio,
                 pending_futures>>

\* _finalize_impl's finally clause, lines 382-383, on the finalization
\* thread
Chunk_ExecutorShutdown ==
  /\ ~executor_shutdown[1]
  /\ is_active' = [is_active EXCEPT ![1] = FALSE]
  /\ executor_shutdown' = [executor_shutdown EXCEPT ![1] = TRUE]
  /\ life' = [life EXCEPT ![1] = "fin_callback"]
  /\ UNCHANGED <<chunkFixed, jpc, chunk_results, job_futures, all_audio,
                 pending_futures>>

ChunkNext ==
  \/ Chunk_OnChunkReady
  \/ Chunk_JobStarts
  \/ Chunk_Submit
  \/ Chunk_Submitted
  \/ Chunk_Record
  \/ Chunk_ExecutorShutdown

SpecChunk == ChunkInit /\ [][ChunkNext]_vars

\* ------------------------------------------------------------------------
\* SpecLocks: the seven mutexes.  Every thread runs the calls the code makes
\* on it, one after the other in any order; a call is the sequence of its
\* `with` entries and exits (threading.Lock: not reentrant, an entry waits
\* while the mutex is held).  Two device threads stand for the callbacks of
\* the microphones.
\* ------------------------------------------------------------------------
Acq(l) == <<"acquire", l>>
Rel(l) == <<"release", l>>

\* on_key_press, on_key_release and _emergency_reset on the listener thread:
\* the handler holds _lock around _start_recording -> on_start
\* (start_session, then start_recording unless busy) and around
\* _stop_recording -> on_stop (stop_recording; finalize only starts a
\* thread); the reset calls on_stop after it has left _lock
ListenerPrograms ==
  { <<Acq("input"), Rel("input")>>,
    <<Acq("input"), Acq("manager"), Rel("manager"), Rel("input")>>,
    <<Acq("input"), Acq("manager"), Rel("manager"), Acq("engine"), Rel("engine"),
      Rel("input")>>,
    <<Acq("input"), Acq("engine"), Rel("engine"), Rel("input")>>,
    <<Acq("input"), Rel("input"), Acq("engine"), Rel("engine")>> }

\* _toggle_timeout on the timer thread, with and without _stop_recording
TimerPrograms ==
  { <<Acq("input"), Rel("input")>>,
    <<Acq("input"), Acq("engine"), Rel("engine"), Rel("input")>> }

\* _audio_callback on a device thread: under the engine's _lock, which is
\* released around the sink (on_chunk_ready takes _chunk_lock twice) and
\* taken again in the finally clause
DevicePrograms ==
  { <<Acq("engine"), Rel("engine")>>,
    <<Acq("engine"), Rel("engine"), Acq("chunk"), Rel("chunk"), Acq("chunk"),
      Rel("chunk"), Acq("engine"), Rel("engine")>> }

\* _transcribe_chunk_with_consensus on a worker: _chunk_lock for a result
\* (line 150) and for the outcome (line 207)
WorkerPrograms ==
  { <<Acq("chunk"), Rel("chunk")>>,
    <<Acq("chunk"), Rel("chunk"), Acq("chunk"), Rel("chunk")>> }

\* _finalize_impl on the finalization thread: the futures are copied under
\* _chunk_lock; then either _output (typed, or to the clipboard with
\* history.add inside output_lock) or the correction (history.get_context,
\* the router's select and record, on_token under output_lock, history.add);
\* then _save_training_data and on_complete
FinPrograms ==
  { <<Acq("chunk"), Rel("chunk"), Acq("output"), Rel("output"),
      Acq("history"), Rel("history"), Acq("chunk"), Rel("chunk"),
      Acq("manager"), Rel("manager")>>,
    <<Acq("chunk"), Rel("chunk"), Acq("output"), Acq("history"), Rel("history"),
      Rel("output"), Acq("manager"), Rel("manager")>>,
    <<Acq("chunk"), Rel("chunk"), Acq("history"), Rel("history"),
      Acq("router"), Rel("router"), Acq("router"), Rel("router"),
      Acq("output"), Rel("output"), Acq("history"), Rel("history"),
      Acq("manager"), Rel("manager")>> }

Programs(t) ==
  CASE t = "listener" -> ListenerPrograms
    [] t = "timer" -> TimerPrograms
    [] t \in {"device1", "device2"} -> DevicePrograms
    [] t = "worker" -> WorkerPrograms
    [] t = "fin" -> FinPrograms

LocksInit ==
  SysIdle /\ FinIdle /\ JobIdle /\ RouterIdle /\ RingIdle /\ KeyIdle /\ ChunkIdle /\ LockIdle

\* what the lock operations never write
lockFixed == <<sysVars, fpc, selected_text, context, window, api_keys,
               provider_failures, backoff, output_lock, out, raised, chunk_texts,
               all_results, combined_text, can_stream, streamed_tokens, final_text,
               text_arg, llm, client_calls, jobVars, routerVars, ringVars, keyVars,
               chunkVars, wait_expired>>

\* the exit of a `with` block that leaves the mutex held
released_not(holder, l) == holder
\* the exit of a `with` block, lock.release()
released(holder, l) == [holder EXCEPT ![l] = "free"]

\* a call begins on thread t
Lock_Begin(t) ==
  /\ lock_prog[t] = <<>>
  /\ \E p \in Programs(t) : lock_prog' = [lock_prog EXCEPT ![t] = p]
  /\ UNCHANGED <<lock_holder, lockFixed>>

\* `with lock:` / lock.acquire(): waits while the mutex is held
Lock_Acquire(t) ==
  /\ lock_prog[t] # <<>>
  /\ Head(lock_prog[t])[1] = "acquire"
  /\ lock_holder[Head(lock_prog[t])[2]] = "free"
  /\ lock_holder' = [lock_holder EXCEPT ![Head(lock_prog[t])[2]] = t]
  /\ lock_prog' = [lock_prog EXCEPT ![t] = Tail(@)]
  /\ UNCHANGED lockFixed

\* the end of the `with` block / lock.release()
Lock_Release(t) ==
  /\ lock_prog[t] # <<>>
  /\ Head(lock_prog[t])[1] = "release"
  /\ lock_holder' = released(lock_holder, Head(lock_prog[t])[2])
  /\ lock_prog' = [lock_prog EXCEPT ![t] = Tail(@)]
  /\ UNCHANGED lockFixed

LocksNext ==
  \/ \E t \in LockThreads : Lock_Begin(t)
  \/ \E t \in LockThreads : Lock_Acquire(t)
  \/ \E t \in LockThreads : Lock_Release(t)

SpecLocks == LocksInit /\ [][LocksNext]_vars

\* ------------------------------------------------------------------------
\* SpecMgr: the SessionManager on its own.  A caller (as the tests do) calls
\* start_session() whenever it likes and keeps the session it was given last
\* in current_session, as on_start does; it calls start() on a session and
\* finalize() on a started one: the finalization thread's finally clause
\* clears is_active and then calls the completion callback.  A completed
\* session the manager does not hold is forgotten.
\* ------------------------------------------------------------------------
MgrInit ==
  SysIdle /\ FinIdle /\ JobIdle /\ RouterIdle /\ RingIdle /\ KeyIdle /\ ChunkIdle /\ LockIdle

\* what the manager and its sessions' life cycle never write
mgrFixed == <<ctlVars, final_chunk, engVars, chunk_results,
              pending_futures, finished, all_audio, executor_shutdown,
              futures_to_wait, fin_chunk, stop_returned, finVars>>

\* SessionManager.start_session()
Mgr_StartSession ==
  /\ FreeSlots # {}
  /\ start_session
  /\ current_session' = IF new_session' = NoSession THEN current_session ELSE new_session'
  /\ UNCHANGED <<is_active, completions, mgrFixed>>

\* Session.start(), lines 67-70, on a session start_session has returned
Mgr_SessionStart(s) ==
  /\ life[s] = "new"
  /\ is_active' = [is_active EXCEPT ![s] = TRUE]
  /\ life' = [life EXCEPT ![s] = "active"]
  /\ UNCHANGED <<active_session, busy_cue, new_session, current_session, completions,
                 mgrFixed>>

\* Session.finalize(), lines 214-221: the finalization thread is started
Mgr_Finalize(s) ==
  /\ life[s] = "active"
  /\ life' = [life EXCEPT ![s] = "fin_finally"]
  /\ current_session' = IF current_session = s THEN NoSession ELSE current_session
  /\ UNCHANGED <<is_active, active_session, busy_cue, new_session, completions, mgrFixed>>

\* _finalize_impl's finally clause, line 382: self.is_active = False
Mgr_SessionEnds(s) ==
  /\ life[s] = "fin_finally"
  /\ is_active' = [is_active EXCEPT ![s] = FALSE]
  /\ life' = [life EXCEPT ![s] = "fin_callback"]
  /\ UNCHANGED <<active_session, busy_cue, new_session, current_session, completions,
                 mgrFixed>>

\* line 384: self.on_complete(self), SessionManager._on_session_complete;
\* a caller may also complete a session it never started, as
\* test_session_completion_clears_active does
Mgr_OnComplete(s) ==
  /\ life[s] \in {"fin_callback", "new"}
  /\ active_session' = on_session_complete(s)
  /\ life' = [life EXCEPT ![s] = "complete"]
  /\ completions' = [completions EXCEPT ![s] = @ + 1]
  /\ UNCHANGED <<is_active, busy_cue, new_session, current_session, mgrFixed>>

\* the caller's call that held the result of start_session() returns, as
\* on_start does; the busy cue has been played
Mgr_CallerReturns ==
  /\ new_session # NoSession \/ busy_cue
  /\ new_session' = NoSession
  /\ busy_cue' = FALSE
  /\ UNCHANGED <<life, is_active, active_session, current_session, completions, mgrFixed>>

\* the last reference to a session goes: a completed one, or one that was
\* given out and never started, which the manager does not hold
Mgr_Forget(s) ==
  /\ life[s] \in {"complete", "new"}
  /\ active_session # s
  /\ life' = [life EXCEPT ![s] = "none"]
  /\ completions' = [completions EXCEPT ![s] = 0]
  /\ new_session' = IF new_session = s THEN NoSession ELSE new_session
  /\ current_session' = IF current_session = s THEN NoSession ELSE current_session
  /\ UNCHANGED <<is_active, active_session, busy_cue, mgrFixed>>

MgrNext ==
  \/ Mgr_StartSession
  \/ Mgr_CallerReturns
  \/ \E s \in Sessions : Mgr_SessionStart(s)
  \/ \E s \in Sessions : Mgr_Finalize(s)
  \/ \E s \in Sessions : Mgr_SessionEnds(s)
  \/ \E s \in Sessions : Mgr_OnComplete(s)
  \/ \E s \in Sessions : Mgr_Forget(s)

SpecMgr == MgrInit /\ [][MgrNext]_vars

\* ------------------------------------------------------------------------
\* Properties of the running system
\* ------------------------------------------------------------------------
\* the step in which on_start's call of start_session() returns
StartSessionReturns ==
  pc["listener"] = "start_session" /\ pc'["listener"] # "start_session"
StartSessionRejects == new_session' = NoSession /\ busy_cue'

\* start() has been called and the completion callback has not run yet
StartedNotCompleted(s) ==
  life[s] \in {"active", "fin_transcribe", "fin_snapshot", "fin_wait",
               "fin_finally", "fin_callback"}

\* the step in which the device thread invokes the sink it holds
SinkInvoked == dev.pc = "callback" /\ dev'.pc # "callback"

\* C1 as stated: at most one session is active, and from a session's start()
\* until its completion callback has run every start_session() returns None
\* and plays the busy cue.
C1_UntilCallback ==
  /\ [](Cardinality({s \in Sessions : is_active[s]}) <= 1)
  /\ [][(StartSessionReturns /\ \E s \in Sessions : StartedNotCompleted(s))
          => StartSessionRejects]_vars

\* C1 amended: at most one session has is_active = true at any time, and from
\* a session's start() until its finalization sets is_active = false (the
\* statement before the completion callback) every start_session() returns
\* None and plays the busy cue.
C1_WhileActive ==
  /\ [](Cardinality({s \in Sessions : is_active[s]}) <= 1)
  /\ [][(StartSessionReturns /\ \E s \in Sessions : is_active[s])
          => StartSessionRejects]_vars

\* a start_session() has been rejected with the busy cue while a started
\* session was finalizing
C1_Witness ==
  /\ busy_cue
  /\ \E s \in Sessions : is_active[s] /\ life[s] \in {"fin_transcribe", "fin_snapshot", "fin_wait", "fin_finally"}

\* C2 as stated: the outcomes in chunk_results are in the order in which the
\* engine handed the chunks over (chunks are numbered in that order).
C2_OutcomesInEmissionOrder ==
  \A s \in Sessions :
    \A i, j \in 1..Len(chunk_results[s]) :
      i < j => chunk_results[s][i] < chunk_results[s][j]

\* C3 as stated: once stop_recording() has returned, no invocation of the
\* session's on_chunk_ready begins.
C3_NoSinkAfterStop ==
  [][SinkInvoked => dev.sink \notin stop_returned]_vars

\* C10 as stated: on_chunk_ready on a completed session with a non-empty
\* chunk returns without raising and changes neither chunk_results nor
\* pending_futures nor the accumulated audio.
C10_CompleteDropsChunks ==
  [][(SinkInvoked /\ life[dev.sink] = "complete" /\ dev.chunk.n > 0)
       => /\ ~dev'.raised
          /\ chunk_results'[dev.sink] = chunk_results[dev.sink]
          /\ pending_futures'[dev.sink] = pending_futures[dev.sink]
          /\ all_audio'[dev.sink] = all_audio[dev.sink]]_vars

\* ------------------------------------------------------------------------
\* Properties of one finalization (SpecFin)
\* ------------------------------------------------------------------------
\* the text the output primitives have been given, in order
DeliveredText ==
  join(<<>>, [i \in 1..Len(out) |->
                IF out[i].op \in {"type", "copy_to_clipboard"} THEN out[i].text ELSE <<>>])

\* the calls of output primitives made by the step
NewCalls == SubSeq(out', Len(out) + 1, Len(out'))

\* every provider call of every chunk returned empty text or raised
AllProviderCallsFailed ==
  \A k \in 1..Len(chunk_results[1]) :
    \A i \in 1..Len(chunk_results[1][k].results) : chunk_results[1][k].results[i] = <<>>

\* C4 as stated: when correct_with_llm returns to a caller that gave a delta
\* callback, no delivered fragment is empty and the fragments delivered during
\* the call, concatenated, are the returned string.
C4_FragmentsAreTheResult ==
  (fpc = "client_returned" /\ llm.mode = "stream")
    => /\ \A i \in 1..Len(streamed_tokens) : streamed_tokens[i] # <<>>
       /\ join(<<>>, streamed_tokens) = llm.result

\* C5 as stated: on the correction path no type call is made while the
\* window's bundle id differs from the one captured at session start.
C5_NoTypeIntoOtherWindow ==
  [][(llm.mode \in {"stream", "plain"} /\ context # "none" /\ window # "none"
        /\ window # context)
       => \A i \in 1..Len(NewCalls) : NewCalls[i].op # "type"]_vars

\* C6: _output with an empty text takes no mutex and makes no call; with a
\* text it takes the output mutex without a call, and then, holding it, makes
\* copy_to_clipboard(text) and notify and no type when the bundle id reported
\* now differs from the captured one, and type(text) alone when it is equal or
\* one of the two contexts is missing.
C6_OutputDeliversOnce ==
  [][/\ (fpc = "output" /\ text_arg = <<>>)
          => (out' = out /\ output_lock' = output_lock)
     /\ (fpc = "output" /\ text_arg # <<>> /\ fpc' # fpc)
          => (out' = out /\ output_lock = "free" /\ output_lock' = "fin")
     /\ (fpc = "output_locked" /\ fpc' # fpc)
          => /\ output_lock = "fin"
             /\ IF context # "none" /\ window # "none" /\ window # context
                THEN NewCalls = << [op |-> "copy_to_clipboard", text |-> text_arg],
                                   [op |-> "notify", text |-> <<>>] >>
                ELSE NewCalls = << [op |-> "type", text |-> text_arg] >>]_vars

\* _output has typed a text although the session captured no context
C6_Witness ==
  /\ fpc = "finally"
  /\ llm.mode \in {"none", "edit"}
  /\ context = "none" /\ window = "com.bar"
  /\ Len(out) = 1 /\ out[1].op = "type" /\ out[1].text # <<>>

\* C7 as stated: when every provider call of every chunk failed, the
\* correction client is not called and no output primitive is called.
C7_NothingAfterTotalFailure ==
  AllProviderCallsFailed => (client_calls = 0 /\ out = <<>>)

\* C8 as stated: when correct_with_llm returned empty text, the text the
\* session has delivered when it completes is raw_combined.
C8_RawTextOnEmptyCorrection ==
  (fpc = "done" /\ llm.mode \in {"stream", "plain"} /\ llm.returned /\ llm.result = <<>>)
    => DeliveredText = combined_text

\* the steps the finalization thread has left at most: its position, and in
\* a backend call the stream events and the fallback call still possible
StepsLeft ==
  LET position == CASE fpc = "transcribe" -> 9
                    [] fpc = "aggregate" -> 8
                    [] fpc \in {"edit", "check_stream"} -> 7
                    [] fpc = "correct" -> 6
                    [] fpc = "backend" -> 5
                    [] fpc = "client_returned" -> 4
                    [] fpc = "output" -> 3
                    [] fpc = "output_locked" -> 2
                    [] fpc = "finally" -> 1
                    [] OTHER -> 0
      in_backend == IF fpc # "backend" THEN 0
                    ELSE (IF llm.fallback THEN 0 ELSE MaxFragments + 1)
                         + (MaxFragments - llm.events)
  IN position * (2 * MaxFragments + 2) + in_backend + (IF fpc = "on_complete" THEN 1 ELSE 0)

\* The one step of the finalization thread that waits for something is the
\* one that takes the output mutex (Output_Enter); every other step needs only
\* the thread's position.  The thread is not blocked when the mutex is free
\* wherever it is about to take it.
ThreadCanStep ==
  /\ fpc \in {"transcribe", "aggregate", "check_stream", "edit", "correct",
              "backend", "client_returned", "output", "output_locked",
              "finally", "on_complete", "done"}
  /\ fpc = "output" => output_lock = "free"
  /\ fpc = "output_locked" => output_lock = "fin"

\* C9: a finalization ends in finitely many steps, having set is_active to
\* false and run the completion callback, which clears the manager slot, once:
\* until it is done the thread has a step it can take, every step of the thread
\* brings it nearer to the end, is_active never becomes true again, the
\* callback never runs twice, and when the thread is done is_active is false,
\* the callback has run once and the slot is clear; this on every path (chunk
\* timed out, empty aggregation, failed correction, raising output primitive).
C9_FinalizeCompletesOnce ==
  /\ []ThreadCanStep
  /\ [][FinThread => StepsLeft' < StepsLeft]_vars
  /\ [][is_active'[1] => is_active[1]]_vars
  /\ [](completions[1] <= 1)
  /\ [](fpc = "done" => (~is_active[1] /\ completions[1] = 1 /\ active_session = NoSession))

\* a finalization in which an exception reached line 358 has completed
C9_Witness ==
  fpc = "done" /\ raised /\ ~is_active[1] /\ completions[1] = 1

\* no selection, exactly one chunk outcome, and it has consensus
FastPath ==
  /\ selected_text = <<>>
  /\ Len(chunk_results[1]) = 1
  /\ chunk_results[1][1].consensus # <<>>

\* no selection and chunk outcomes that are not the fast path's
SlowPath ==
  /\ selected_text = <<>>
  /\ Len(chunk_results[1]) >= 1
  /\ ~FastPath

\* the finalization has left the try block
LeftFinalize == fpc \in {"finally", "on_complete", "done"}

\* on the fast path, once line 267 has aggregated the outcome, the consensus
\* is the argument of _output, which delivers it, and the correction client
\* is never called
FastPathOutputs ==
  /\ (FastPath /\ chunk_texts # <<>>) =>
        /\ client_calls = 0
        /\ fpc \in {"output", "output_locked"} \/ LeftFinalize
        /\ fpc \in {"output", "output_locked"} => text_arg = chunk_results[1][1].consensus
  /\ (FastPath /\ chunk_texts # <<>> /\ LeftFinalize) =>
        DeliveredText = chunk_results[1][1].consensus

\* C17 as stated: the fast path outputs the consensus and never calls the
\* correction client; with two or more outcomes, or one without consensus, a
\* finalization that ends without an exception has called the client.
C17_FastPathElseCorrection ==
  /\ FastPathOutputs
  /\ (LeftFinalize /\ ~raised /\ SlowPath) => client_calls >= 1

\* C17: the fast path outputs the consensus and never calls the correction
\* client; with two or more outcomes, or one without consensus, the client
\* is called once the aggregation has found a text.
C17_FastPathElseCorrectionOfTexts ==
  /\ FastPathOutputs
  /\ (LeftFinalize /\ SlowPath /\ chunk_texts # <<>>) => client_calls >= 1

\* a finalization of two chunk outcomes, the first with consensus, that has
\* called the correction client
C17_Witness ==
  /\ LeftFinalize
  /\ SlowPath
  /\ Len(chunk_results[1]) = 2
  /\ chunk_results[1][1].consensus # <<>>
  /\ client_calls = 1
  /\ DeliveredText # <<>>

\* C18 as stated: with a selection, the finalization calls the text-editing
\* variant of the correction client and delivers the text it returns by
\* replace_selection, never by type.
C18_EditReplacesSelection ==
  (LeftFinalize /\ ~raised /\ selected_text # <<>> /\ chunk_texts # <<>>) =>
    /\ client_calls = 1
    /\ llm.mode = "edit"
    /\ \A i \in 1..Len(out) : out[i].op # "type"
    /\ llm.result # <<>> =>
         \E i \in 1..Len(out) : out[i] = [op |-> "replace_selection", text |-> llm.result]

\* ------------------------------------------------------------------------
\* Properties of one chunk job (SpecJob)
\* ------------------------------------------------------------------------
\* scenario S1: its four calls, consensus_threshold 2, a word cap the
\* utterance is within, no selection; the job has ended without a timeout
S1_JobDone ==
  /\ job_calls = S1_calls
  /\ snapshot.consensus_threshold = 2
  /\ snapshot.consensus_max_words >= 2
  /\ selected_text = <<>>
  /\ jpc = "done"
  /\ ~job_timed_out

\* the finalization thread has left the try block of _finalize_impl
LeftTry == fpc \in {"finally", "on_complete", "done"}

\* C11 as stated: in S1 the recorded consensus, and the text the fast path
\* types, is "Hello, world." for every order of completion.
C11_SameTextInEveryOrder ==
  S1_JobDone
    => /\ job_consensus = S1_pa_d1
       /\ \A i \in 1..Len(out) : out[i].op = "type" => out[i].text = S1_pa_d1

\* C11 amended: in S1 the job ends after the second call to complete, the
\* recorded consensus is the text of the call that completed first (so it is
\* "Hello, world." exactly when pa/d1 completes first), and the fast path
\* delivers that text, without a call of the correction client.
C11_FirstToCompleteWins ==
  S1_JobDone
    => /\ Len(job_results) = 2
       /\ job_consensus = job_results[1]
       /\ chunk_results[1] = << [results |-> job_results, consensus |-> job_consensus] >>
       /\ LeftTry => (client_calls = 0 /\ DeliveredText = job_consensus)
       /\ \A i \in 1..Len(out) : out[i].op = "type" => out[i].text = job_results[1]

\* S1 with pb/d1 the first call to complete: "hello world" has been typed
C11_Witness ==
  /\ S1_JobDone
  /\ job_results = <<S1_pb_d1, S1_pa_d1>>
  /\ out = << [op |-> "type", text |-> S1_pb_d1] >>

\* the results whose normalization is that of t
Matching(results, t) ==
  {i \in 1..Len(results) : normalize_for_matching(results[i]) = normalize_for_matching(t)}

\* the job is running or has just ended: every list of results a job comes
\* to hold is held in such a state
JobHoldsResults == fpc = "job"

\* C12: whenever check_consensus returns a text t for the results a job holds,
\* at least consensus_threshold of them normalize like t, and normalize(t)
\* has at most consensus_max_words words; for every snapshot.
C12_ConsensusIsAgreedAndShort ==
  JobHoldsResults =>
    LET t == check_consensus(job_results, snapshot)
    IN t # <<>>
         => /\ Cardinality(Matching(job_results, t)) >= snapshot.consensus_threshold
            /\ Len(split(normalize_for_matching(t))) <= snapshot.consensus_max_words

\* a job has recorded a punctuated consensus that exactly three results back
C12_Witness ==
  /\ fpc = "job"
  /\ job_pending = {}
  /\ snapshot.consensus_threshold = 3
  /\ job_consensus = S1_pa_d1
  /\ Cardinality(Matching(job_results, job_consensus)) = 3

\* the result whose normalization is the most frequent non-empty one, the
\* earliest such result when several normalizations are equally frequent
\* (0 when every normalization is empty)
MostFrequentFirst(results) ==
  LET kept == {i \in 1..Len(results) : normalize_for_matching(results[i]) # <<>>}
      top == {i \in kept : \A j \in kept :
                 Cardinality(Matching(results, results[j])) <= Cardinality(Matching(results, results[i]))}
  IN IF kept = {} THEN 0 ELSE CHOOSE i \in top : \A j \in top : i <= j

\* the words of a filler occur, in a row, among the words of t
HasFillerToken(t) ==
  \E filler \in FILLER_WORDS :
    LET fw == split(filler)
        tw == split(lower(t))
    IN \E k \in 0..(Len(tw) - Len(fw)) : SubSeq(tw, k + 1, k + Len(fw)) = fw

\* C13 as stated: check_consensus returns a text iff the most frequent
\* non-empty normalization occurs at least consensus_threshold times, has at
\* most consensus_max_words words and contains no filler token; the text is
\* the original of the first result with that normalization.
C13_ConsensusIffEligible ==
  JobHoldsResults =>
    LET t == check_consensus(job_results, snapshot)
        m == MostFrequentFirst(job_results)
        eligible == /\ m # 0
                    /\ Cardinality(Matching(job_results, job_results[m])) >= snapshot.consensus_threshold
                    /\ Len(split(normalize_for_matching(job_results[m]))) <= snapshot.consensus_max_words
                    /\ ~HasFillerToken(normalize_for_matching(job_results[m]))
    IN /\ t # <<>> <=> eligible
       /\ eligible => t = job_results[m]

\* ------------------------------------------------------------------------
\* Properties of the router (SpecRouter)
\* ------------------------------------------------------------------------
\* the registry entry of a provider
nominal(name) == PROVIDERS[CHOOSE i \in 1..Len(PROVIDERS) : PROVIDERS[i].name = name]

\* a routing call has just returned
RouterReturned == router_call.op \in {"select_provider", "get_fallback"}

\* C14: a provider whose backoff_until lies after now is not returned by
\* select_provider or get_fallback, whatever failures and successes were
\* recorded before and whichever router recorded them.
C14_BackedOffNeverReturned ==
  \A p \in Providers :
    (RouterReturned /\ backoff_until[p] > now) => router_call.result # p

\* the fastest provider has its key and is backed off, a short input is
\* routed to the next one
C14_Witness ==
  /\ router_call.op = "select_provider"
  /\ router_call.arg < SHORT_INPUT_WORD_THRESHOLD
  /\ "groq" \in api_keys
  /\ backoff_until["groq"] > now
  /\ router_call.result = "gemini"

\* providers with a credential and not in back-off now
Available == {p \in Providers : p \in api_keys /\ ~(backoff_until[p] > now)}

\* C15: select_provider returns None iff no provider is available; otherwise
\* an available provider of least nominal latency for fewer than 20 words and
\* of least priority number for 20 words or more.
C15_SelectByLatencyOrPriority ==
  router_call.op = "select_provider" =>
    LET r == router_call.result
    IN /\ r = "none" <=> Available = {}
       /\ Available # {} =>
            /\ r \in Available
            /\ IF router_call.arg < SHORT_INPUT_WORD_THRESHOLD
               THEN \A q \in Available : nominal(r).latency_ms <= nominal(q).latency_ms
               ELSE \A q \in Available : nominal(r).priority <= nominal(q).priority

\* exactly 20 words with the fastest provider available: the preferred one
C15_Witness ==
  /\ router_call.op = "select_provider"
  /\ router_call.arg = SHORT_INPUT_WORD_THRESHOLD
  /\ "groq" \in Available
  /\ router_call.result = "gemini"

\* C16: record_failure adds one to the count of the provider; the first and
\* the second failure in a row leave it out of back-off, the n-th (n >= 3)
\* sets backoff_until to now + min(2^n, 300), 8 seconds for the third and
\* never more than 300; record_success sets the count to 0 and clears the
\* back-off.
C16_BackoffSchedule ==
  [][LET p == router_call'.arg
         n == provider_failures'[p]
     IN /\ router_call'.op = "record_failure" =>
             /\ n = provider_failures[p] + 1
             /\ n < 3 => ~(backoff_until'[p] > now)
             /\ n = 3 => backoff_until'[p] = now + 8
             /\ n >= 3 => backoff_until'[p] = now + Min(2 ^ n, 300)
             /\ backoff_until'[p] - now <= 300
        /\ router_call'.op = "record_success" =>
             /\ n = 0
             /\ ~(backoff_until'[p] > now)]_vars

\* the ninth failure in a row: 2^9 seconds cut to 300
C16_Witness ==
  /\ router_call.op = "record_failure"
  /\ provider_failures[router_call.arg] = MaxFailures
  /\ 2 ^ MaxFailures > MAX_BACKOFF_SECONDS
  /\ backoff_until[router_call.arg] = now + MAX_BACKOFF_SECONDS

\* ------------------------------------------------------------------------
\* Properties of the chunks of a recording (Spec)
\* ------------------------------------------------------------------------
\* samples the builder of the device was given since start_recording(): the
\* seed and the blocks
delivered == (preroll + rec_blocks) * DEFAULT_BLOCKSIZE

\* the builder ends at the last sample delivered
builder_begins == delivered - current_chunk

\* the first chunk of the running recording has been emitted and is at its
\* sink; it begins at sample 0
FirstChunkEmitted ==
  dev.pc = "callback" /\ is_recording /\ flushed = 1 /\ dev.chunk.id = 1

\* C19 as stated: no audio is lost between chunks, the chunk after an
\* emitted chunk begins at the sample where the emitted chunk ended.
C19_NextChunkBeginsWhereEmittedEnded ==
  FirstChunkEmitted => builder_begins = dev.chunk.n

\* the device thread emits a chunk in this step
Emits == dev.pc = "idle" /\ dev'.pc = "callback"

Contained(k) ==
  UNION {{recordings[k].chunks[c][i].b : i \in 1..Len(recordings[k].chunks[c])} :
           c \in 1..Len(recordings[k].chunks)}

\* outside a recording the ring holds blocks that follow one another
RingIsContiguous ==
  (~shut /\ ~is_recording) =>
    \A i \in 1..Len(ring) - 1 : ring[i + 1] = ring[i] + 1

\* no block of a seed is in, or older than a block in, the recording before
SeedsAreFresh ==
  \A k \in 2..Len(recordings) :
    \A i \in 1..Len(recordings[k].seed) :
      \A y \in Contained(k - 1) : recordings[k].seed[i] > y

\* C21 as stated: the ring holds contiguous blocks of its device, so that
\* start_recording seeds the builder with the audio just before the press,
\* and a recording that follows another is not seeded with audio that is
\* in the earlier recording or older than it.
C21_RingIsContiguousAndSeedsAreFresh ==
  /\ RingIsContiguous
  /\ SeedsAreFresh

\* C22: the ring never holds more than preroll_seconds of audio, that is
\* more than floor(preroll_seconds * sample_rate / 1024) blocks; a block
\* pushed onto a full ring evicts the oldest one; no block is pushed while
\* recording or after shutdown.
C22_RingIsBounded ==
  /\ [](/\ Len(ring) <= (config.preroll_seconds * config.sample_rate) \div DEFAULT_BLOCKSIZE
        /\ Len(ring) * DEFAULT_BLOCKSIZE <= config.preroll_seconds * config.sample_rate)
  /\ [][block_no' # block_no =>
          IF is_recording \/ shut THEN ring' = ring
          ELSE IF Len(ring) * DEFAULT_BLOCKSIZE + DEFAULT_BLOCKSIZE
                    > config.preroll_seconds * config.sample_rate
               THEN ring' = Append(Tail(ring), block_no')
               ELSE ring' = Append(ring, block_no')]_vars

\* a full ring after a push that evicted the first block delivered
C22_Witness ==
  /\ ~is_recording
  /\ ~shut
  /\ Len(ring) = preroll_chunks
  /\ block_no = preroll_chunks + 1
  /\ ring[1] = 2
  /\ ring[Len(ring)] = block_no

\* ------------------------------------------------------------------------
\* Aggregation (SpecFin)
\* ------------------------------------------------------------------------
\* t is the text of a result of c with the most words, the earliest of them
MostWordsEarliest(c, t) ==
  \E i \in 1..Len(c.results) :
    /\ t = c.results[i]
    /\ \A j \in 1..Len(c.results) : Len(split(c.results[j])) <= Len(split(t))
    /\ \A j \in 1..(i - 1) : Len(split(c.results[j])) < Len(split(t))

\* t is what the outcome c contributes
ChunkTextOf(c, t) ==
  IF c.consensus # <<>> THEN t = c.consensus ELSE MostWordsEarliest(c, t)

\* the texts are those of the outcomes that have a consensus or a result, in
\* the order of the outcomes
TextsOfOutcomes(cr, texts) ==
  LET contributes == {k \in 1..Len(cr) : cr[k].consensus # <<>> \/ cr[k].results # <<>>}
      place(k) == Cardinality({j \in contributes : j <= k})
  IN /\ Len(texts) = Cardinality(contributes)
     /\ \A k \in contributes : ChunkTextOf(cr[k], texts[place(k)])

\* t is the texts in order with one space between neighbours
JoinedBySingleSpaces(texts, t) ==
  LET start(k) == Len(join(<<>>, SubSeq(texts, 1, k - 1))) + k
  IN /\ Len(t) = Len(join(<<>>, texts)) + Len(texts) - 1
     /\ \A k \in 1..Len(texts) :
          /\ SubSeq(t, start(k), start(k) + Len(texts[k]) - 1) = texts[k]
          /\ k < Len(texts) => t[start(k) + Len(texts[k])] = " "

\* C28: the aggregation step leaves in chunk_texts, for each outcome in list
\* order, the consensus if there is one and otherwise the text of the result
\* with the most words, the earliest on a tie, nothing for an outcome without
\* results; raw_combined is these texts joined by single spaces.
C28_ConsensusElseMostWordsJoined ==
  [][(fpc = "aggregate" /\ fpc' # "aggregate")
       => /\ TextsOfOutcomes(chunk_results[1], chunk_texts')
          /\ chunk_texts' # <<>> => JoinedBySingleSpaces(chunk_texts', combined_text')]_vars

\* two outcomes aggregated: two results of one word each without consensus,
\* then a consensus
C28_Witness ==
  /\ fpc = "check_stream"
  /\ Len(chunk_results[1]) = 2
  /\ chunk_results[1][1] = [results |-> << <<"u", "m">>, <<"a">> >>, consensus |-> <<>>]
  /\ chunk_results[1][2].consensus = <<"a">>
  /\ chunk_texts = << <<"u", "m">>, <<"a">> >>
  /\ combined_text = <<"u", "m", " ", "a">>

\* a fragment of the streamed response has been typed and the response has
\* not ended
BetweenFragments ==
  fpc = "backend" /\ llm.mode = "stream" /\ streamed_tokens # <<>>

\* C29: on the streaming path the output mutex is held from the first
\* fragment typed until the streamed response has ended.
C29_MutexHeldThroughStream == BetweenFragments => output_lock = "fin"

\* _finalize_impl of Session s goes from its wait to the aggregation
StartsAggregation(s) ==
  life[s] = "fin_wait" /\ life' = [life EXCEPT ![s] = "fin_finally"]

\* C30: when the finalization of a session starts to aggregate, every chunk
\* job handed to the session by on_chunk_ready has returned, or the wait for
\* it has expired.
C30_AggregatesAfterEveryDeliveredJob ==
  [][\A s \in Sessions :
       StartsAggregation(s)
         => \A k \in 1..Len(pending_futures[s]) :
              pending_futures[s][k] \in finished[s] \cup wait_expired[s]]_vars

\* ------------------------------------------------------------------------
\* The silence an emitted chunk ends with (SpecRing)
\* ------------------------------------------------------------------------
RECURSIVE TrailingSilence(_, _)
\* the samples at the end of the buffers that belong to silent blocks
TrailingSilence(buffers, silent) ==
  IF buffers = <<>> THEN 0
  ELSE IF buffers[Len(buffers)].b \notin silent THEN 0
  ELSE buffers[Len(buffers)].n
         + TrailingSilence(SubSeq(buffers, 1, Len(buffers) - 1), silent)

\* the chunk the step has emitted
EmittedChunk ==
  LET chunks == recordings'[Len(recordings')].chunks IN chunks[Len(chunks)]

\* C33: a chunk emitted during a recording ends with exactly
\* TRAILING_SILENCE_SECONDS of silence, what was trimmed being silence too,
\* and silence_duration is 0 after the emission.
C33_EmittedChunkEndsWithTrailingSilence ==
  [][(is_recording /\ flushed' = flushed + 1)
       => /\ TrailingSilence(EmittedChunk, silent_blocks') = trailing_silence_samples
          /\ silence_duration' = 0]_vars

\* ------------------------------------------------------------------------
\* The device thread around the sink (Spec).  The thread is inside the engine
\* mutex during its steps from "idle" and from "reacquire" only: with
\* dev.pc = "callback" it has released the mutex and the sink is to run.
\* ------------------------------------------------------------------------
\* the device thread emits: it leaves the mutex with the chunk and the sink
DeviceEmits == dev.pc = "idle" /\ dev'.pc = "callback"

\* the device thread takes the mutex again and ends the block
DeviceResumes == dev.pc = "reacquire" /\ dev'.pc # "reacquire"

\* C31: the sink runs with the engine mutex released: at an emission the
\* builder is moved into the chunk and the sink is the one read under the
\* mutex; the engine can be stopped while the sink runs; if recording has
\* stopped when the mutex is taken again the callback returns and leaves the
\* builder, the flush count and silence_duration as it finds them.
C31_SinkOutsideMutexAndAbortWhenStopped ==
  [][/\ DeviceEmits
          => /\ current_chunk' = 0
             /\ dev'.sink = on_chunk_ready
             /\ dev'.chunk.id = flushed'
     /\ (dev.pc = "callback" /\ dev'.pc = "reacquire")
          => UNCHANGED <<is_recording, on_chunk_ready, current_chunk,
                         silence_duration, flushed>>
     /\ (DeviceResumes /\ ~is_recording)
          => /\ dev'.pc = "idle"
             /\ UNCHANGED <<is_recording, on_chunk_ready, current_chunk,
                            silence_duration, flushed, preroll>>]_vars

\* stop_recording has run while the sink was running, and the sink has raised
C31_Witness ==
  /\ dev.pc = "reacquire"
  /\ dev.raised
  /\ ~is_recording
  /\ silence_duration = 0

\* thread t is inside on_start or on_stop, called by a press, release or
\* timeout handler
InStartOrStopCallback(t) ==
  /\ pc[t] \in {"start_session", "session_start", "start_recording",
                "stop_recording", "finalize"}
  /\ handler[t] \in {"press", "press_toggle", "release", "timeout"}

\* C32: while the start-recording or stop-recording callback of a press,
\* release or timeout handler runs, the handler's thread does not hold the
\* controller's mutex.
C32_CallbacksOutsideControllerMutex ==
  \A t \in Threads : InStartOrStopCallback(t) => in_lock # t

\* _emergency_reset has run to its end
ResetDone == handler["listener"] = "reset" /\ pc["listener"] = "end"

\* C36: after an emergency reset the session manager's slot is empty
\* (is_busy() is false) and the audio engine is not recording, whatever state
\* the session in flight was in; the reset does not wait for that session's
\* finalization.
C36_ResetEmptiesSlotAndStopsEngine ==
  ResetDone => ~SlotBusy /\ ~is_recording

\* C38: whenever the input controller is in state recording or
\* toggle_recording outside a handler's critical section, a session has been
\* admitted for that recording and the audio engine is recording with that
\* session's on_chunk_ready attached; the engine is never recording while the
\* controller is idle.
C38_ControllerSessionEngineAgree ==
  in_lock = "free"
    => /\ state \in {"recording", "toggle_recording"}
            => /\ current_session # NoSession
               /\ active_session = current_session
               /\ is_recording
               /\ on_chunk_ready = current_session
       /\ state = "idle" => ~is_recording

\* ------------------------------------------------------------------------
\* The correction client's backends (SpecFin)
\* ------------------------------------------------------------------------
\* the running backend call returns empty text and the client turns to a fallback
TurnsToFallback == fpc = "backend" /\ ~llm.fallback /\ llm'.fallback

\* the client returns after a backend call; its text is a backend's text
ClientReturns == fpc = "backend" /\ fpc' = "client_returned"
ReturnsBackendText ==
  /\ ClientReturns
  /\ llm'.result # <<>>
  /\ llm.mode = "edit" => llm'.result # selected_text
ReturnsAfterEmpty == ClientReturns /\ llm.mode # "edit" /\ llm'.result = <<>>

\* C34: one call of the correction client, in the normal and in the
\* text-editing variant, invokes at most two backends: the selected one and,
\* only after it returned empty text, one fallback, a different available
\* provider of best priority; record_failure is called for every backend that
\* returned empty text and record_success for the backend whose text is
\* returned.
C34_AtMostTwoBackendsRecorded ==
  [][/\ TurnsToFallback
          => /\ llm'.provider # llm.provider
             /\ llm'.provider = get_fallback(llm.provider, backoff')
             /\ provider_failures' = failures_after_failure(provider_failures, llm.provider)
     /\ (fpc = "backend" /\ llm.fallback /\ fpc' = "backend")
          => llm'.provider = llm.provider
     /\ ReturnsAfterEmpty
          => provider_failures' = failures_after_failure(provider_failures, llm.provider)
     /\ ReturnsBackendText
          => provider_failures' = failures_after_success(provider_failures, llm.provider)]_vars

\* ------------------------------------------------------------------------
\* The input controller's events (SpecCtl)
\* ------------------------------------------------------------------------
StartedByGap ==
  /\ ctl_event.fired = <<"start">>
  /\ state = IF ctl_event.gap < config.double_tap_threshold
             THEN "toggle_recording" ELSE "recording"

\* C23 as stated: every trigger press received in idle fires exactly one
\* start intent and enters toggle_recording when the gap since the previous
\* press is below double_tap_threshold, recording otherwise.
C23_IdlePressStartsByGap ==
  (ctl_event.key = "trigger_press" /\ ctl_event.state = "idle") => StartedByGap

\* C23 amended: a trigger press received in idle while the trigger is not
\* already marked pressed fires exactly one start intent and enters
\* toggle_recording when the gap since the previous press is below
\* double_tap_threshold, recording otherwise (also at the threshold).
C23_FreshIdlePressStartsByGap ==
  (/\ ctl_event.key = "trigger_press"
   /\ ctl_event.state = "idle"
   /\ ~ctl_event.pressed) => StartedByGap

\* a second press exactly double_tap_threshold after the first has started
\* a hold recording
C23_Witness ==
  /\ ctl_event.key = "trigger_press"
  /\ ctl_event.state = "idle"
  /\ ~ctl_event.pressed
  /\ ctl_event.gap = config.double_tap_threshold
  /\ last_press_time > config.double_tap_threshold
  /\ state = "recording"

\* C24: a trigger press received in toggle_recording, the trigger not held,
\* fires exactly one stop intent, cancels the safety timer and enters idle,
\* whatever the gap since the previous press.
C24_TogglePressStops ==
  (/\ ctl_event.key = "trigger_press"
   /\ ctl_event.state = "toggle_recording"
   /\ ~ctl_event.pressed)
    => (ctl_event.fired = <<"stop">> /\ state = "idle" /\ toggle_timer = "none")

\* C25: a trigger release in recording fires exactly one stop intent and
\* enters idle; in toggle_recording or idle it fires nothing and leaves the
\* state as it was.
C25_ReleaseStopsHoldOnly ==
  ctl_event.key = "trigger_release"
    => IF ctl_event.state = "recording"
       THEN ctl_event.fired = <<"stop">> /\ state = "idle"
       ELSE ctl_event.fired = <<>> /\ state = ctl_event.state

\* the release that ends a hold recording
C25_Witness ==
  /\ ctl_event.key = "trigger_release"
  /\ ctl_event.state = "recording"
  /\ ctl_event.fired = <<"stop">>
  /\ state = "idle"

\* C26: Shift+Escape leaves the controller idle, the timer cancelled and the
\* trigger released, fires a stop intent exactly when a recording was in
\* progress, and calls the emergency-reset hook when one is set.
C26_EmergencyReset ==
  ctl_event.key = "shift_esc"
    => /\ state = "idle"
       /\ toggle_timer = "none"
       /\ ~trigger_key_pressed
       /\ (\E i \in DOMAIN ctl_event.fired : ctl_event.fired[i] = "stop")
            <=> ctl_event.state # "idle"
       /\ on_emergency_reset # "none"
            => \E i \in DOMAIN ctl_event.fired : ctl_event.fired[i] = "emergency_reset"

\* _toggle_timeout runs for the timer that the running toggle recording has
\* armed: no handler has ended that recording (every end cancels the timer,
\* every new toggle recording arms a new one)
TimeoutOfRunningRecording == state = "toggle_recording" /\ toggle_timer = "none"

\* C37: when the controller is still in the toggle recording that armed the
\* safety timeout, the timeout fires exactly one stop intent and the
\* controller enters idle; a timeout whose toggle recording was ended before
\* by a press or an emergency reset fires nothing and changes no state, also
\* when a new recording has begun meanwhile.
C37_TimeoutStopsOnlyItsRecording ==
  [][ctl_event'.key = "timeout"
       => IF TimeoutOfRunningRecording
          THEN ctl_event'.fired = <<"stop">> /\ state' = "idle"
          ELSE /\ ctl_event'.fired = <<>>
               /\ UNCHANGED <<state, trigger_key_pressed, last_press_time, toggle_timer>>]_vars

\* ------------------------------------------------------------------------
\* The provider calls of a chunk (SpecChunk)
\* ------------------------------------------------------------------------
\* the (device, provider) pairs whose device has audio in the chunk
PairsWithAudio ==
  {<<Mics[i], registry[j]>> : i \in {k \in 1..Len(Mics) : job_chunk[Mics[k]] > 0},
                              j \in 1..Len(registry)}

JobsAreThePairsWithAudio ==
  /\ {job_futures[i] : i \in 1..Len(job_futures)} = PairsWithAudio
  /\ Len(job_futures) = Cardinality(PairsWithAudio)

\* the job of the chunk has left its loops, or the chunk was ignored
FanoutOver == jpc \in {"ignored", "waiting", "returned", "recorded", "raised"}

\* C27: once the job of a chunk has left its loops it has started exactly one
\* provider call for each (device, provider) pair whose device has audio, at
\* most |D|*|P| in all; a chunk without audio starts none and records no
\* outcome.
C27_OneJobPerPairWithAudio ==
  /\ Len(job_futures) <= Len(Mics) * Len(registry)
  /\ FanoutOver => JobsAreThePairsWithAudio
  /\ (\A m \in DOMAIN job_chunk : job_chunk[m] = 0)
       => job_futures = <<>> /\ chunk_results[1] = <<>>

\* the providers of the calls submitted so far
Dispatched == {job_futures[i][2] : i \in 1..Len(job_futures)}

\* C35: a provider whose initialize failed is excluded from dispatch: it
\* receives no transcription job of a later chunk, while the providers
\* registered before or after it are registered and dispatched normally.
C35_FailedProviderExcluded ==
  /\ Dispatched \cap init_failed = {}
  /\ jpc \in {"waiting", "recorded"}
       => \A i \in 1..Len(registry) :
            registry[i] \notin init_failed => registry[i] \in Dispatched

\* ------------------------------------------------------------------------
\* The mutexes (SpecLocks)
\* ------------------------------------------------------------------------
\* the mutexes thread t holds
HeldBy(t) == {l \in Locks : lock_holder[l] = t}

\* thread t is inside a call and its next lock operation can be made
Runnable(t) ==
  /\ lock_prog[t] # <<>>
  /\ Head(lock_prog[t])[1] = "acquire" => lock_holder[Head(lock_prog[t])[2]] = "free"

\* thread t waits for a mutex another thread holds
WaitsFor(t, l) ==
  /\ lock_prog[t] # <<>>
  /\ Head(lock_prog[t]) = Acq(l)
  /\ lock_holder[l] # "free"

\* the order of the mutexes: a thread takes a later one while it holds an
\* earlier one, never the other way round
LockOrder == <<"input", "manager", "engine", "chunk", "output", "history", "router">>
Rank(l) == CHOOSE i \in 1..Len(LockOrder) : LockOrder[i] = l

\* C39: no deadlock is reachable among the input-controller, session-manager,
\* audio-engine, chunk, output, history and router mutexes over all
\* interleavings of the listener, timer, device, worker and finalization
\* threads: whenever a thread is inside a call some thread can make its next
\* step, the mutexes are taken in one acyclic order, and a mutex is held only
\* by a thread that has its release still ahead.
C39_NoDeadlockAcyclicOrder ==
  /\ (\E t \in LockThreads : lock_prog[t] # <<>>) => \E t \in LockThreads : Runnable(t)
  /\ \A t \in LockThreads :
       (lock_prog[t] # <<>> /\ Head(lock_prog[t])[1] = "acquire")
         => \A h \in HeldBy(t) : Rank(h) < Rank(Head(lock_prog[t])[2])
  /\ \A l \in Locks :
       lock_holder[l] # "free"
         => \E i \in 1..Len(lock_prog[lock_holder[l]]) : lock_prog[lock_holder[l]][i] = Rel(l)

\* the listener holds the controller's and the engine's mutex while the timer
\* waits for the first and both device threads for the second, and the
\* finalization holds the output mutex and the history mutex
C39_Witness ==
  /\ HeldBy("listener") = {"input", "engine"}
  /\ WaitsFor("timer", "input")
  /\ WaitsFor("device1", "engine")
  /\ WaitsFor("device2", "engine")
  /\ HeldBy("fin") = {"output", "history"}
  /\ HeldBy("worker") = {"chunk"}

\* ------------------------------------------------------------------------
\* The session manager on its own (SpecMgr)
\* ------------------------------------------------------------------------
\* start_session() has returned s and the completion callback of s has not run
AdmittedUncompleted(s) == life[s] \in {"new", "active", "fin_finally", "fin_callback"}

\* a step in which start_session() admits a session
Admits == \E s \in Sessions : life[s] = "none" /\ life'[s] = "new"

\* C40: the SessionManager on its own enforces single admission: while a
\* session that start_session() has returned has not had its completion
\* callback run, a further start_session() returns None, also when start() has
\* not yet been called on the first; the slot is never overwritten while the
\* session it holds is uncompleted.
C40_SingleAdmissionUntilCompletion ==
  [][/\ Admits => ~\E r \in Sessions : AdmittedUncompleted(r)
     /\ (active_session # NoSession /\ AdmittedUncompleted(active_session))
          => active_session' = active_session]_vars

====
